---- MODULE Spec2Model ----
(***************************************************************************)
(* A model of the Amazon States Language generator of functionless         *)
(* (packages/@functionless/asl/src/asl.ts): the name allocators, the AST   *)
(* normalizer, the statement lowerer and the flattening of the sub-state   *)
(* graph into the final state machine definition.                          *)
(***************************************************************************)
EXTENDS Integers, Sequences, FiniteSets, TLC

VARIABLES
    stateNames,        \* stateNamesGenerator: the state names registered so far
    requested,         \* history: the names asked of createUniqueStateName
    returned,          \* history: the names createUniqueStateName returned
    declIdent,         \* the identifier (binding.name.name) of each declaration
    variableNames,     \* variableNamesGenerator: the variable names registered
    variableNamesMap,  \* variableNamesMap: declaration -> allocated name
    declLog,           \* history: <<declaration, name returned>> per call
    input,             \* the FunctionLike handed to the ASL constructor
    decl,              \* this.decl: the normalized FunctionLike
    definition,        \* this.definition: the state machine, once built
    heapCounter,       \* this.heapCounter
    thrown,            \* the message of the error the constructor threw
    pc,                \* the position of the constructor
    executionInput,    \* $$.Execution.Input of the execution of the machine
    current,           \* the name of the state the execution is about to enter
    data,              \* the JSON document the execution carries: path -> value
    trace,             \* history: the states the execution has entered, in order
    status,            \* idle, running, succeeded or failed
    outcome            \* the output of the execution, or its error

stateNameVars == <<stateNames, requested, returned>>
variableNameVars == <<declIdent, variableNames, variableNamesMap, declLog>>
constructorVars == <<input, decl, definition, heapCounter, thrown, pc>>
executionVars == <<executionInput, current, data, trace, status, outcome>>
vars == <<stateNameVars, variableNameVars, constructorVars, executionVars>>

(***************************************************************************)
(* Strings                                                                 *)
(***************************************************************************)

\* the longest state name createUniqueStateName keeps of its input
MaxStateNameLength == 75

RECURSIVE Repeat(_, _)
\* the string s repeated n times
Repeat(s, n) == IF n = 0 THEN "" ELSE s \o Repeat(s, n - 1)

\* stateName.slice(0, n)
Slice(s, n) == IF Len(s) > n THEN SubSeq(s, 1, n) ELSE s

(***************************************************************************)
(* UniqueNameGenerator (@functionless/ast)                                 *)
(***************************************************************************)

\* the collision formatters handed to the two generators:
\* (name, n) => `${name} ${n}` and (name, n) => `${name}__${n}`
StateNameSeparator == " "
VariableNameSeparator == "__"

\* formatNameCollision(name, n) of a generator with separator sep
FormatName(sep, name, n) == name \o sep \o ToString(n)

FormatStateName(name, n) == FormatName(StateNameSeparator, name, n)

FormatVariableName(name, n) == FormatName(VariableNameSeparator, name, n)

\* the smallest n >= 1 whose formatted name is not registered in names
SmallestUnused(names, name, sep) ==
    CHOOSE n \in 1..(Cardinality(names) + 1) :
        /\ FormatName(sep, name, n) \notin names
        /\ \A m \in 1..(n - 1) : FormatName(sep, name, m) \in names

\* UniqueNameGenerator.getUnique: the name itself when unseen, else the name
\* with the smallest unused collision suffix; the result is registered
GetUnique(names, name, sep) ==
    IF name \notin names
    THEN [name |-> name, names |-> names \cup {name}]
    ELSE LET u == FormatName(sep, name, SmallestUnused(names, name, sep))
         IN [name |-> u, names |-> names \cup {u}]

(***************************************************************************)
(* ASL.createUniqueStateName                                               *)
(***************************************************************************)

\* mutant: the name is truncated after the collision suffix was added
CreateUniqueStateNameTruncateLast(names, stateName) ==
    LET r == GetUnique(names, stateName, StateNameSeparator)
    IN [name |-> Slice(r.name, MaxStateNameLength), names |-> r.names]

\* mutant: the name is not truncated at all
CreateUniqueStateNameNoTruncate(names, stateName) ==
    GetUnique(names, stateName, StateNameSeparator)

createUniqueStateName(names, stateName) ==
    LET truncatedStateName ==
            IF Len(stateName) > MaxStateNameLength
            THEN Slice(stateName, MaxStateNameLength)
            ELSE stateName
    IN GetUnique(names, truncatedStateName, StateNameSeparator)

(***************************************************************************)
(* ASL.getDeclarationName                                                  *)
(***************************************************************************)

\* the declarations of the compiled function: each has an identifier name.
\* Distinct declarations may share an identifier, and an identifier may
\* literally be the suffixed form of another.
MaxDecls == 3

DeclIdentifiers == {"x", "x__1", "y"}

Decls == 1..MaxDecls

\* mutant: the memo is not consulted, every call allocates a name
GetDeclarationNameNoMemo(map, names, binding, identifier) ==
    LET r == GetUnique(names, identifier, VariableNameSeparator)
    IN [name |-> r.name, names |-> r.names,
        map |-> [d \in DOMAIN map \cup {binding} |->
                    IF d = binding THEN r.name ELSE map[d]]]

\* mutant: the identifier is used verbatim, without the collision suffix
GetDeclarationNameVerbatim(map, names, binding, identifier) ==
    IF binding \in DOMAIN map
    THEN [name |-> map[binding], names |-> names, map |-> map]
    ELSE [name |-> identifier, names |-> names \cup {identifier},
          map |-> [d \in DOMAIN map \cup {binding} |->
                      IF d = binding THEN identifier ELSE map[d]]]

getDeclarationName(map, names, binding, identifier) ==
    IF binding \in DOMAIN map
    THEN [name |-> map[binding], names |-> names, map |-> map]
    ELSE LET r == GetUnique(names, identifier, VariableNameSeparator)
         IN [name |-> r.name, names |-> r.names,
             map |-> [d \in DOMAIN map \cup {binding} |->
                         IF d = binding THEN r.name ELSE map[d]]]

(***************************************************************************)
(* The abstract syntax tree (@functionless/ast).  A node is a record with  *)
(* a kind; an absent optional child is NoNode.                             *)
(***************************************************************************)

NoNode == [kind |-> "undefined"]

\* no value (undefined), where a value is not a node
Nothing == [undefined |-> TRUE]

IsNothing(x) == "undefined" \in DOMAIN x

\* no execution of the machine has been started
ExecutionIdle ==
    /\ executionInput = Nothing
    /\ current = ""
    /\ data = <<>>
    /\ trace = <<>>
    /\ status = "idle"
    /\ outcome = Nothing

IsNode(n) == n.kind # "undefined"

NullLiteralExpr == [kind |-> "NullLiteralExpr"]

BooleanLiteralExpr(b) == [kind |-> "BooleanLiteralExpr", value |-> b]

NumberLiteralExpr(n) == [kind |-> "NumberLiteralExpr", value |-> n]

StringLiteralExpr(t) == [kind |-> "StringLiteralExpr", value |-> t]

\* a reference to the variable that declaration declares as `name`
Identifier(name, declaration) ==
    [kind |-> "Identifier", name |-> name, decl |-> declaration]

\* left op right
BinaryExpr(left, op, right) ==
    [kind |-> "BinaryExpr", left |-> left, op |-> op, right |-> right]

\* { properties }: each one name: expr or ...expr
ObjectLiteralExpr(properties) == [kind |-> "ObjectLiteralExpr", properties |-> properties]

PropAssignExpr(name, expr) == [kind |-> "PropAssignExpr", name |-> name, expr |-> expr]

SpreadAssignExpr(expr) == [kind |-> "SpreadAssignExpr", expr |-> expr]

\* op expr: +, -, !, ++, --
UnaryExpr(op, expr) == [kind |-> "UnaryExpr", op |-> op, expr |-> expr]

\* expr op: ++, --
PostfixUnaryExpr(op, expr) == [kind |-> "PostfixUnaryExpr", op |-> op, expr |-> expr]

\* new Error(message)
NewErrorExpr(message) ==
    [kind |-> "NewExpr", expr |-> "Error", args |-> <<StringLiteralExpr(message)>>]

\* await task(): a call of an integration
IntegrationCallExpr(name) == [kind |-> "CallExpr", integration |-> name]

\* expr[element]
ElementAccessExpr(expr, element) ==
    [kind |-> "ElementAccessExpr", expr |-> expr, element |-> element]

\* array.join(separator); the separator is NoNode when there is none
JoinCallExpr(array, separator) ==
    [kind |-> "CallExpr", expr |-> array, method |-> "join", separator |-> separator]

\* array.method(() => body): a call that takes a callback
CallbackCallExpr(array, method, body) ==
    [kind |-> "CallExpr", expr |-> array, method |-> method,
     callback |-> [kind |-> "ArrowFunctionExpr", parameters |-> <<>>, body |-> body]]

BlockStmt(statements) == [kind |-> "BlockStmt", statements |-> statements]

ReturnStmt(expr) == [kind |-> "ReturnStmt", expr |-> expr]

ThrowStmt(expr) == [kind |-> "ThrowStmt", expr |-> expr]

ExprStmt(expr) == [kind |-> "ExprStmt", expr |-> expr]

BreakStmt == [kind |-> "BreakStmt"]

ContinueStmt == [kind |-> "ContinueStmt"]

IfStmt(when, then, else) ==
    [kind |-> "IfStmt", when |-> when, then |-> then, else |-> else]

CatchClause(variableDecl, block) ==
    [kind |-> "CatchClause", variableDecl |-> variableDecl, block |-> block]

\* the declaration of variable `name`; id tells declarations apart
VariableDecl(name, id) == [kind |-> "VariableDecl", name |-> name, decl |-> id]

\* let a, b, ...; the declarations have no initializer
VariableStmt(decls) == [kind |-> "VariableStmt", decls |-> decls]

TryStmt(tryBlock, catchClause, finallyBlock) ==
    [kind |-> "TryStmt", tryBlock |-> tryBlock, catchClause |-> catchClause,
     finallyBlock |-> finallyBlock]

ForStmt(initializer, condition, incrementor, stmt) ==
    [kind |-> "ForStmt", initializer |-> initializer, condition |-> condition,
     incrementor |-> incrementor, stmt |-> stmt]

ForOfStmt(initializer, expr, stmt) ==
    [kind |-> "ForOfStmt", initializer |-> initializer, expr |-> expr, stmt |-> stmt]

ForInStmt(initializer, expr, stmt) ==
    [kind |-> "ForInStmt", initializer |-> initializer, expr |-> expr, stmt |-> stmt]

WhileStmt(condition, stmt) ==
    [kind |-> "WhileStmt", condition |-> condition, stmt |-> stmt]

DoStmt(stmt, condition) ==
    [kind |-> "DoStmt", condition |-> condition, stmt |-> stmt]

\* the function to compile: (input) => body
\* a parameter of a function, declared as `name`
ParameterDecl(name, id) == [kind |-> "ParameterDecl", name |-> name, decl |-> id]

FunctionLike(parameters, body) ==
    [kind |-> "ArrowFunctionExpr", parameters |-> parameters, body |-> body]

isFunctionLike(n) == n.kind \in {"ArrowFunctionExpr", "FunctionExpr", "FunctionDecl"}

isLoop(n) == n.kind \in {"ForOfStmt", "ForInStmt", "ForStmt", "WhileStmt", "DoStmt"}

RECURSIVE isTerminal(_)
\* node.isTerminal(): every branch of the node returns or throws
isTerminal(n) ==
    CASE n.kind \in {"ReturnStmt", "ThrowStmt"} -> TRUE
      [] n.kind = "TryStmt" ->
            IF IsNode(n.finallyBlock)
            THEN \/ isTerminal(n.finallyBlock)
                 \/ /\ isTerminal(n.tryBlock)
                    /\ IsNode(n.catchClause)
                    /\ isTerminal(n.catchClause.block)
            ELSE /\ isTerminal(n.tryBlock)
                 /\ IsNode(n.catchClause)
                 /\ isTerminal(n.catchClause.block)
      [] n.kind = "BlockStmt" ->
            /\ Len(n.statements) > 0
            /\ isTerminal(n.statements[Len(n.statements)])
      [] n.kind = "IfStmt" ->
            /\ isTerminal(n.then)
            /\ IsNode(n.else)
            /\ isTerminal(n.else)
      [] OTHER -> FALSE

(***************************************************************************)
(* ASL constructor: normalizeAST                                           *)
(***************************************************************************)

\* new ReturnStmt(span, new NullLiteralExpr(span))
ReturnNull == ReturnStmt(NullLiteralExpr)

\* mutant: the parent of the block is not looked at
AppendedReturnAnyBlock(node, parentIsFunctionLike) ==
    IF \/ Len(node.statements) = 0
       \/ ~isTerminal(node.statements[Len(node.statements)])
    THEN <<ReturnNull>>
    ELSE <<>>

\* the statements normalizeAST appends to a block whose parent is parent
AppendedReturn(node, parentIsFunctionLike) ==
    IF /\ parentIsFunctionLike
       /\ \/ Len(node.statements) = 0
          \/ ~isTerminal(node.statements[Len(node.statements)])
    THEN <<ReturnNull>>
    ELSE <<>>

RECURSIVE normalizeAST(_, _)
\* normalizeAST(node), where parentIsFunctionLike is isFunctionLike(node.parent);
\* every node other than a block is rebuilt by visitEachChild(node, normalizeAST)
normalizeAST(node, parentIsFunctionLike) ==
    LET visit(child) ==
            IF IsNode(child) THEN normalizeAST(child, isFunctionLike(node)) ELSE child
    IN CASE node.kind = "BlockStmt" ->
              BlockStmt([i \in 1..Len(node.statements) |-> visit(node.statements[i])]
                        \o AppendedReturn(node, parentIsFunctionLike))
         [] node.kind \in {"ArrowFunctionExpr", "FunctionExpr", "FunctionDecl"} ->
              [node EXCEPT !.body = visit(node.body)]
         [] node.kind \in {"ReturnStmt", "ThrowStmt", "ExprStmt"} ->
              [node EXCEPT !.expr = visit(node.expr)]
         [] node.kind = "IfStmt" ->
              [node EXCEPT !.when = visit(node.when), !.then = visit(node.then),
                           !.else = visit(node.else)]
         [] node.kind = "TryStmt" ->
              [node EXCEPT !.tryBlock = visit(node.tryBlock),
                           !.catchClause = visit(node.catchClause),
                           !.finallyBlock = visit(node.finallyBlock)]
         [] node.kind = "CatchClause" ->
              [node EXCEPT !.block = visit(node.block)]
         [] node.kind = "ForStmt" ->
              [node EXCEPT !.initializer = visit(node.initializer),
                           !.condition = visit(node.condition),
                           !.incrementor = visit(node.incrementor),
                           !.stmt = visit(node.stmt)]
         [] node.kind \in {"ForOfStmt", "ForInStmt"} ->
              [node EXCEPT !.expr = visit(node.expr), !.stmt = visit(node.stmt)]
         [] node.kind \in {"WhileStmt", "DoStmt"} ->
              [node EXCEPT !.condition = visit(node.condition), !.stmt = visit(node.stmt)]
         [] node.kind = "BinaryExpr" ->
              [node EXCEPT !.left = visit(node.left), !.right = visit(node.right)]
         [] node.kind = "CallExpr" /\ "callback" \in DOMAIN node ->
              [node EXCEPT !.expr = visit(node.expr), !.callback = visit(node.callback)]
         [] OTHER -> node

\* this.decl = visitEachChild(decl, normalizeAST)
NormalizeDecl(fn) == [fn EXCEPT !.body = normalizeAST(fn.body, TRUE)]

(***************************************************************************)
(* Specification of the state-name allocator: any sequence of requests     *)
(***************************************************************************)

\* the number of state names requested in one compilation
MaxRequests == 5

LongName == Repeat("a", MaxStateNameLength)

\* the names requested: short ones, one that equals a suffixed form, names of
\* 74..77 characters, and two long names that differ after 75 characters
StateNameRequests ==
    {"a", "a 1", "b",
     Slice(LongName, MaxStateNameLength - 1), LongName,
     LongName \o "x", LongName \o "yz"}

StateNamesIdle == stateNames = {} /\ requested = <<>> /\ returned = <<>>

VariableNamesIdle ==
    /\ declIdent = <<>>
    /\ variableNames = {}
    /\ variableNamesMap = <<>>
    /\ declLog = <<>>

ConstructorIdle ==
    /\ input = NoNode
    /\ decl = NoNode
    /\ definition = Nothing
    /\ heapCounter = 0
    /\ thrown = ""
    /\ pc = "idle"

InitNames == StateNamesIdle /\ VariableNamesIdle /\ ConstructorIdle /\ ExecutionIdle

\* one call of createUniqueStateName
CreateUniqueStateName ==
    /\ Len(requested) < MaxRequests
    /\ \E stateName \in StateNameRequests :
          LET r == createUniqueStateName(stateNames, stateName)
          IN /\ stateNames' = r.names
             /\ requested' = Append(requested, stateName)
             /\ returned' = Append(returned, r.name)
    /\ UNCHANGED <<variableNameVars, constructorVars, executionVars>>

NextNames == CreateUniqueStateName

SpecNames == InitNames /\ [][NextNames]_vars

(***************************************************************************)
(* Specification of the variable-name allocator: any sequence of calls     *)
(***************************************************************************)

\* the number of getDeclarationName calls in one compilation
MaxCalls == 4

InitVars ==
    /\ StateNamesIdle
    /\ declIdent \in [Decls -> DeclIdentifiers]
    /\ variableNames = {}
    /\ variableNamesMap = <<>>
    /\ declLog = <<>>
    /\ ConstructorIdle
    /\ ExecutionIdle

\* one call of getDeclarationName (directly or through getIdentifierName)
GetDeclarationName ==
    /\ Len(declLog) < MaxCalls
    /\ \E binding \in Decls :
          LET r == getDeclarationName(variableNamesMap, variableNames,
                                      binding, declIdent[binding])
          IN /\ variableNames' = r.names
             /\ variableNamesMap' = r.map
             /\ declLog' = Append(declLog, <<binding, r.name>>)
    /\ UNCHANGED <<stateNameVars, declIdent, constructorVars, executionVars>>

NextVars == GetDeclarationName

SpecVars == InitVars /\ [][NextVars]_vars

(***************************************************************************)
(* Positions in the tree: a node is identified by the path of child names  *)
(* that leads to it from the FunctionLike (node.parent is the path without *)
(* its last step)                                                          *)
(***************************************************************************)

\* the child of node named step; the statements of a block are "1", "2", ...
Child(node, step) ==
    IF node.kind = "BlockStmt"
    THEN node.statements[CHOOSE i \in 1..Len(node.statements) : ToString(i) = step]
    ELSE IF node.kind = "ObjectLiteralExpr"
    THEN node.properties[CHOOSE i \in 1..Len(node.properties) : ToString(i) = step]
    ELSE node[step]

RECURSIVE NodeAt(_, _)
\* the node at path below root
NodeAt(root, path) ==
    IF path = <<>> THEN root
    ELSE Child(NodeAt(root, SubSeq(path, 1, Len(path) - 1)), path[Len(path)])

Parent(path) == SubSeq(path, 1, Len(path) - 1)

\* the paths of the ancestors of path, the nearest first
Ancestors(path) == [i \in 1..Len(path) |-> SubSeq(path, 1, Len(path) - i)]

IsPrefix(p, q) == Len(p) <= Len(q) /\ SubSeq(q, 1, Len(p)) = p

\* node.findParent(isFunctionLike): the nearest enclosing function
FindFunction(root, path) ==
    LET up == Ancestors(path)
        hits == {i \in 1..Len(up) : isFunctionLike(NodeAt(root, up[i]))}
    IN IF hits = {} THEN <<"none">>
       ELSE up[CHOOSE i \in hits : \A j \in hits : i <= j]

\* node.findParent(anyOf(isForOfStmt, isForInStmt, isForStmt, isWhileStmt, isDoStmt))
FindLoop(root, path) ==
    LET up == Ancestors(path)
        hits == {i \in 1..Len(up) : isLoop(NodeAt(root, up[i]))}
    IN IF hits = {} THEN <<"none">>
       ELSE up[CHOOSE i \in hits : \A j \in hits : i <= j]

RECURSIVE NodeThrow(_, _)
\* node.throw(): the path of the catch clause or finally block that runs
\* when the node at path throws; <<"none">> when the error is terminal
NodeThrow(root, path) ==
    IF path = <<>> THEN <<"none">>
    ELSE LET scope == NodeAt(root, Parent(path))
             step == path[Len(path)]
         IN IF scope.kind = "TryStmt" /\ step = "tryBlock"
            THEN IF IsNode(scope.catchClause)
                 THEN Append(Parent(path), "catchClause")
                 ELSE Append(Parent(path), "finallyBlock")
            ELSE IF /\ scope.kind = "TryStmt"
                    /\ step = "catchClause"
                    /\ IsNode(scope.finallyBlock)
                 THEN Append(Parent(path), "finallyBlock")
                 ELSE NodeThrow(root, Parent(path))

RECURSIVE canThrow(_)
\* canThrow(node): the node holds a throw statement or a call
canThrow(node) ==
    CASE node.kind \in {"ThrowStmt", "CallExpr", "NewExpr"} -> TRUE
      [] node.kind = "BlockStmt" ->
            \E i \in 1..Len(node.statements) : canThrow(node.statements[i])
      [] node.kind \in {"ArrowFunctionExpr", "FunctionExpr", "FunctionDecl"} -> FALSE
      [] OTHER ->
            \E f \in DOMAIN node \ {"kind", "name", "decl", "value", "op", "args",
                                    "integration", "method"} :
                IsNode(node[f]) /\ canThrow(node[f])

RECURSIVE hasTask(_)
\* analyzeFlow(node).hasTask: the node holds a call of an integration
hasTask(node) ==
    CASE node.kind = "CallExpr" -> "integration" \in DOMAIN node
      [] node.kind = "NewExpr" -> FALSE
      [] node.kind = "BlockStmt" ->
            \E i \in 1..Len(node.statements) : hasTask(node.statements[i])
      [] node.kind \in {"ArrowFunctionExpr", "FunctionExpr", "FunctionDecl"} -> FALSE
      [] OTHER ->
            \E f \in DOMAIN node \ {"kind", "name", "decl", "value", "op", "args",
                                    "integration", "method"} :
                IsNode(node[f]) /\ hasTask(node[f])

RECURSIVE Join(_, _)
\* the strings of a sequence joined by sep
Join(strs, sep) ==
    IF Len(strs) = 0 THEN ""
    ELSE IF Len(strs) = 1 THEN strs[1]
    ELSE strs[1] \o sep \o Join(Tail(strs), sep)

\* DeterministicNameGenerator.generateOrGet(node): one name per node
GeneratedName(path) == "fnl_tmp_" \o Join(path, "_")

RECURSIVE toStateName(_)
\* toStateName(node): the source text of the node, used to name its state
toStateName(node) ==
    CASE node.kind = "NullLiteralExpr" -> "null"
      [] node.kind = "BooleanLiteralExpr" -> IF node.value THEN "true" ELSE "false"
      [] node.kind = "NumberLiteralExpr" -> ToString(node.value)
      [] node.kind = "StringLiteralExpr" -> "\"" \o node.value \o "\""
      [] node.kind = "Identifier" -> node.name
      [] node.kind = "VariableDecl" -> node.name
      [] node.kind = "ParameterDecl" -> node.name
      [] node.kind = "BinaryExpr" ->
            toStateName(node.left) \o " " \o node.op \o " " \o toStateName(node.right)
      [] node.kind = "ObjectLiteralExpr" -> "{ ... }"
      [] node.kind = "PropAssignExpr" -> node.name \o ": " \o toStateName(node.expr)
      [] node.kind = "SpreadAssignExpr" -> "..." \o toStateName(node.expr)
      [] node.kind = "UnaryExpr" -> node.op \o toStateName(node.expr)
      [] node.kind = "PostfixUnaryExpr" -> toStateName(node.expr) \o node.op
      [] node.kind = "NewExpr" ->
            "new " \o node.expr \o "(" \o toStateName(node.args[1]) \o ")"
      [] node.kind = "CallExpr" ->
            IF "integration" \in DOMAIN node THEN "await " \o node.integration \o "()"
            ELSE toStateName(node.expr) \o "." \o node.method \o "(function)"
      [] node.kind = "BlockStmt" -> "{ ... }"
      [] node.kind = "ElementAccessExpr" ->
           toStateName(node.expr) \o "[" \o toStateName(node.element) \o "]"
      [] node.kind = "ReturnStmt" -> "return " \o toStateName(node.expr)
      [] node.kind = "ThrowStmt" -> "throw " \o toStateName(node.expr)
      [] node.kind = "ExprStmt" -> toStateName(node.expr)
      [] node.kind = "BreakStmt" -> "break"
      [] node.kind = "ContinueStmt" -> "continue"
      [] node.kind = "IfStmt" -> "if(" \o toStateName(node.when) \o ")"
      [] node.kind = "TryStmt" -> "try"
      [] node.kind = "CatchClause" ->
            IF IsNode(node.variableDecl)
            THEN "catch(" \o node.variableDecl.name \o ")" ELSE "catch"
      [] node.kind = "ForStmt" -> "for(;;)"
      [] node.kind = "ForOfStmt" ->
            "for(" \o node.initializer.name \o " of " \o toStateName(node.expr) \o ")"
      [] node.kind = "ForInStmt" ->
            "for(" \o node.initializer.name \o " in " \o toStateName(node.expr) \o ")"
      [] node.kind = "WhileStmt" -> "while (" \o toStateName(node.condition) \o ")"
      [] node.kind = "DoStmt" -> "do...while (" \o toStateName(node.condition) \o ")"
      [] OTHER -> node.kind

(***************************************************************************)
(* ASLGraph (asl-graph.ts): the graph of states the lowering builds.  A    *)
(* NodeState is a record with a Type; a SubState has a startState and an   *)
(* ordered list of entries (local label, NodeState or SubState).  States   *)
(* carry `origin`, the statement they were made for and their role in it,  *)
(* which takes no part in the lowering.                                    *)
(***************************************************************************)

\* ASLGraph.DeferNext: the successor is filled in by the enclosing sub-state
DeferNext == "__DeferNext"

\* the prefix of a label that is addressed one level up
UpLevel == "../"

Has(r, f) == f \in DOMAIN r

\* the record without the fields fs
Without(r, fs) == [k \in DOMAIN r \ fs |-> r[k]]

Entry(key, state) == [key |-> key, state |-> state]

isSubState(s) == Has(s, "startState")

isNodeState(s) == Has(s, "Type")

isStateOrSubState(s) == isSubState(s) \/ isNodeState(s)

isJsonPath(o) == Has(o, "jsonPath")

isLiteralValue(o) == Has(o, "value")

isConditionOutput(o) == Has(o, "condition")

\* ASLGraph.getAslStateOutput
getAslStateOutput(x) == IF isStateOrSubState(x) THEN x.output ELSE x

\* { ...state, node }: the state with the node set, unless node is undefined
WithNode(state, node) ==
    IF IsNothing(node) THEN state ELSE [node |-> node] @@ Without(state, {"node"})

\* { ...state, output }
WithOutput(state, output) == [output |-> output] @@ Without(state, {"output"})

\* the node a state is named after: its text and its place in the function
NodeOf(root, path) == [name |-> toStateName(NodeAt(root, path)), at |-> path]

\* a node made by the lowering itself: new BreakStmt(emptySpan())
Synthetic(node) == [name |-> toStateName(node), at |-> <<"synthetic">>]

\* the successor of a single state, retargeted from the sentinel to props
updateDeferredNextState(props, state) ==
    LET next(s) ==
            IF Has(s, "Next") /\ s.Next = DeferNext
            THEN IF Has(props, "Next") THEN [s EXCEPT !.Next = props.Next]
                 ELSE [End |-> TRUE] @@ Without(s, {"Next"})
            ELSE s
        default(s) ==
            IF Has(s, "Default") /\ s.Default = DeferNext
            THEN IF Has(props, "Next") THEN [s EXCEPT !.Default = props.Next]
                 ELSE [End |-> TRUE] @@ Without(s, {"Default"})
            ELSE s
        retarget(branches) ==
            [i \in DOMAIN branches |->
                IF branches[i].Next = DeferNext /\ Has(props, "Next")
                THEN [branches[i] EXCEPT !.Next = props.Next]
                ELSE branches[i]]
        choices(s) ==
            IF Has(s, "Choices") THEN [s EXCEPT !.Choices = retarget(s.Choices)] ELSE s
        catch(s) ==
            IF Has(s, "Catch") THEN [s EXCEPT !.Catch = retarget(s.Catch)] ELSE s
    IN IF state.Type \in {"Fail", "Succeed"} THEN state
       ELSE catch(choices(default(next(state))))

RECURSIVE updateDeferredNextStates(_, _)
\* ASLGraph.updateDeferredNextStates(props, state): every sentinel successor
\* in state becomes props; inside a sub-state a label of the caller is
\* addressed one level up
updateDeferredNextStates(props, state) ==
    IF isSubState(state)
    THEN LET up == IF Has(props, "Next")
                   THEN [Next |-> UpLevel \o props.Next] ELSE props
         IN [state EXCEPT !.states =
                [i \in 1..Len(state.states) |->
                    Entry(state.states[i].key,
                          updateDeferredNextStates(up, state.states[i].state))]]
    ELSE updateDeferredNextState(props, state)

\* the sub-states that are there: undefined and bare outputs are left out
Defined(subStates) == SelectSeq(subStates, isStateOrSubState)

\* ASLGraph.joinSubStates(node, ...subStates): the sub-states in order, each
\* one's deferred successor being the start of the next one
joinSubStates(node, subStates) ==
    LET real == Defined(subStates)
    IN IF Len(real) = 0 THEN Nothing
       ELSE IF Len(real) = 1
            THEN IF Has(real[1], "node") THEN real[1] ELSE WithNode(real[1], node)
            ELSE WithNode(
                   [startState |-> "0",
                    states |-> [i \in 1..Len(real) |->
                        Entry(ToString(i - 1),
                              IF i = Len(real) THEN real[i]
                              ELSE updateDeferredNextStates([Next |-> ToString(i)],
                                                            real[i]))]],
                   node)

\* ASLGraph.passWithInput(pass, value): the Pass state that emits the value
passWithInput(pass, value) ==
    IF isJsonPath(value)
    THEN [InputPath |-> value.jsonPath] @@ pass
    ELSE IF value.containsJsonPath
    THEN [Parameters |-> [i \in 1..Len(value.value.members) |->
                            LET m == value.value.members[i]
                            IN [name |-> m.k,
                                value |-> IF Len(m.k) > 2 /\ SubSeq(m.k, Len(m.k) - 1, Len(m.k)) = ".$"
                                          THEN m.v.v ELSE m.v]]]
         @@ pass
    ELSE [Result |-> value.value] @@ pass

\* the name of label next, looked up in the maps of local names of the
\* enclosing sub-states (the innermost first, the last one the empty map of
\* the top); a label that no sub-state defines is left as it is
RECURSIVE updateTransition(_, _)
updateTransition(next, nameMaps) ==
    IF Len(next) >= 3 /\ SubSeq(next, 1, 3) = UpLevel
    THEN IF Len(nameMaps) > 1
         THEN updateTransition(SubSeq(next, 4, Len(next)), Tail(nameMaps))
         ELSE SubSeq(next, 4, Len(next))
    ELSE LET hits == {i \in 1..Len(nameMaps) : next \in DOMAIN nameMaps[i]}
         IN IF hits = {} THEN next
            ELSE nameMaps[CHOOSE i \in hits : \A j \in hits : i <= j][next]

\* the state with the labels in Next, Default, Choices[].Next and
\* Catch[].Next rewritten to state names
rewriteStateTransitions(state, nameMaps) ==
    LET rewrite(branches) ==
            [i \in DOMAIN branches |->
                [branches[i] EXCEPT !.Next = updateTransition(@, nameMaps)]]
        next(s) ==
            IF Has(s, "Next") THEN [s EXCEPT !.Next = updateTransition(@, nameMaps)]
            ELSE s
        default(s) ==
            IF Has(s, "Default")
            THEN [s EXCEPT !.Default = updateTransition(@, nameMaps)] ELSE s
        choices(s) ==
            IF Has(s, "Choices") THEN [s EXCEPT !.Choices = rewrite(@)] ELSE s
        catch(s) ==
            IF Has(s, "Catch") THEN [s EXCEPT !.Catch = rewrite(@)] ELSE s
    IN catch(choices(default(next(state))))

\* the function of the pairs (key, name)
LocalNames(pairs) ==
    [k \in {pairs[i].key : i \in 1..Len(pairs)} |->
        (CHOOSE e \in {pairs[i] : i \in 1..Len(pairs)} : e.key = k).name]

RECURSIVE getStateNames(_, _, _, _)
\* the unique names of the states of a sub-state whose own name is
\* parentName, acc being the names given so far: the start state takes that
\* name, a state that has a node is named after it and any other one after
\* its label
getStateNames(parentName, sub, names, acc) ==
    IF Len(acc) = Len(sub.states)
    THEN [localNames |-> LocalNames(acc), names |-> names]
    ELSE LET e == sub.states[Len(acc) + 1]
             r == IF sub.startState = e.key
                  THEN [name |-> parentName, names |-> names]
                  ELSE IF Has(e.state, "node")
                       THEN createUniqueStateName(names, e.state.node.name)
                       ELSE createUniqueStateName(names, e.key \o "__" \o parentName)
         IN getStateNames(parentName, sub, r.names,
                          Append(acc, [key |-> e.key, name |-> r.name]))

RECURSIVE Flat(_)
\* the sequences of seqs one after the other
Flat(seqs) == IF seqs = <<>> THEN <<>> ELSE Head(seqs) \o Flat(Tail(seqs))

RECURSIVE toStatesInternal(_, _, _, _)
RECURSIVE toStatesEach(_, _, _, _)
\* the named states of a state or sub-state called parentName
toStatesInternal(parentName, state, nameMaps, names) ==
    IF ~isSubState(state)
    THEN [states |-> <<[name |-> parentName,
                        state |-> Without(rewriteStateTransitions(state, nameMaps),
                                          {"node", "output"})]>>,
          names |-> names]
    ELSE LET local == getStateNames(parentName, state, names, <<>>)
         IN toStatesEach(state, <<local.localNames>> \o nameMaps, local.names, <<>>)

\* the named states of the entries of sub-state sub, acc being those of the
\* entries done so far
toStatesEach(sub, nameMaps, names, acc) ==
    IF Len(acc) = Len(sub.states) THEN [states |-> Flat(acc), names |-> names]
    ELSE LET e == sub.states[Len(acc) + 1]
             r == toStatesInternal(nameMaps[1][e.key], e.state, nameMaps, names)
         IN toStatesEach(sub, nameMaps, r.names, Append(acc, r.states))

\* ASLGraph.toStates(startState, states, getStateNames): the flat list of
\* named states
toStates(startState, state, names) ==
    toStatesInternal(startState, state, << <<>> >>, names)

(***************************************************************************)
(* ASL.aslGraphToStates                                                    *)
(***************************************************************************)

\* the template the states deferred at the top of a graph are given
TopLevelNext == [End |-> TRUE]

\* mutant: the states deferred at the top are left as they are
aslGraphToStatesKeepDeferred(state, overrideStateName, names) ==
    LET stmt == createUniqueStateName(names,
                    IF overrideStateName # "" THEN overrideStateName
                    ELSE IF Has(state, "node") THEN state.node.name ELSE "Default")
        flat == toStates(stmt.name, state, stmt.names)
    IN [definition |-> [StartAt |-> stmt.name, States |-> flat.states],
        names |-> flat.names]

\* aslGraphToStates(state, overrideStateName); "" is no override
aslGraphToStates(state, overrideStateName, names) ==
    LET stmt == createUniqueStateName(names,
                    IF overrideStateName # "" THEN overrideStateName
                    ELSE IF Has(state, "node") THEN state.node.name ELSE "Default")
        flat == toStates(stmt.name, updateDeferredNextStates(TopLevelNext, state),
                         stmt.names)
    IN [definition |-> [StartAt |-> stmt.name, States |-> flat.states],
        names |-> flat.names]

(***************************************************************************)
(* JSON values and the conditions of Choice states                         *)
(***************************************************************************)

JNull == [t |-> "null"]

JBool(b) == [t |-> "boolean", v |-> b]

JNum(n) == [t |-> "number", v |-> n]

JStr(s) == [t |-> "string", v |-> s]

\* an array; its items are kept whole in a document
JArr(items) == [t |-> "array", items |-> items]

\* an object: its members in order, each [k |-> key, v |-> value]
JObj(members) == [t |-> "object", members |-> members]

\* the truthiness of a literal of the source language
JTruthy(j) ==
    CASE j.t = "null" -> FALSE
      [] j.t = "boolean" -> j.v
      [] j.t = "number" -> j.v # 0
      [] j.t = "string" -> j.v # ""
      [] OTHER -> TRUE

RECURSIVE JsonStringify(_)
RECURSIVE StringifyMembers(_)
RECURSIVE StringifyItems(_)
\* JSON.stringify(value)
JsonStringify(j) ==
    CASE j.t = "null" -> "null"
      [] j.t = "boolean" -> IF j.v THEN "true" ELSE "false"
      [] j.t = "number" -> ToString(j.v)
      [] j.t = "string" -> "\"" \o j.v \o "\""
      [] j.t = "array" -> "[" \o StringifyItems(j.items) \o "]"
      [] OTHER -> "{" \o StringifyMembers(j.members) \o "}"

StringifyItems(items) ==
    IF Len(items) = 0 THEN ""
    ELSE JsonStringify(items[1])
         \o (IF Len(items) > 1 THEN "," \o StringifyItems(Tail(items)) ELSE "")

StringifyMembers(members) ==
    IF Len(members) = 0 THEN ""
    ELSE "\"" \o members[1].k \o "\":" \o JsonStringify(members[1].v)
         \o (IF Len(members) > 1 THEN "," \o StringifyMembers(Tail(members)) ELSE "")

\* ResultPath: null, the result of the state is discarded
NoResultPath == "null"

and(conds) == IF Len(conds) > 1 THEN [And |-> conds] ELSE conds[1]

or(conds) == IF Len(conds) > 1 THEN [Or |-> conds] ELSE conds[1]

not(cond) == [Not |-> cond]

isPresent(Variable) == [IsPresent |-> TRUE, Variable |-> Variable]

isNotPresent(Variable) == [IsPresent |-> FALSE, Variable |-> Variable]

isNull(Variable) == [IsNull |-> TRUE, Variable |-> Variable]

numericLessThan(Variable, number) == [NumericLessThan |-> number, Variable |-> Variable]

isNotNull(Variable) == [IsNull |-> FALSE, Variable |-> Variable]

isBoolean(Variable) == [IsBoolean |-> TRUE, Variable |-> Variable]

isString(Variable) == [IsString |-> TRUE, Variable |-> Variable]

isNumeric(Variable) == [IsNumeric |-> TRUE, Variable |-> Variable]

isPresentAndNotNull(Variable) == and(<<isPresent(Variable), isNotNull(Variable)>>)

stringEquals(Variable, string) ==
    [And |-> <<isString(Variable), [StringEquals |-> string, Variable |-> Variable]>>]

numericEquals(Variable, number) ==
    [And |-> <<isNumeric(Variable), [NumericEquals |-> number, Variable |-> Variable]>>]

booleanEquals(Variable, value) == [BooleanEquals |-> value, Variable |-> Variable]

falseCondition == isNull("$$.Execution.Id")

trueCondition == isNotNull("$$.Execution.Id")

\* isTruthy with the tests of the value left out: present and not null
isTruthyWhenNotNull(v) == isPresentAndNotNull(v)

\* mutant: isTruthy without the test for an object or an array
isTruthyOfPrimitive(v) ==
    and(<<isPresentAndNotNull(v),
          or(<<and(<<isString(v), not(stringEquals(v, ""))>>),
               and(<<isNumeric(v), not(numericEquals(v, 0))>>),
               and(<<isBoolean(v), booleanEquals(v, TRUE)>>)>>)>>)

\* ASL.isTruthy(v)
isTruthy(v) ==
    and(<<isPresentAndNotNull(v),
          or(<<and(<<isString(v), not(stringEquals(v, ""))>>),
               and(<<isNumeric(v), not(numericEquals(v, 0))>>),
               and(<<isBoolean(v), booleanEquals(v, TRUE)>>),
               not(or(<<isBoolean(v), isNumeric(v), isString(v)>>))>>)>>)

\* ASLGraph.isTruthyOutput(output): the condition that the output is truthy
isTruthyOutput(output) ==
    IF isConditionOutput(output) THEN output.condition
    ELSE IF isJsonPath(output) THEN isTruthy(output.jsonPath)
    ELSE IF JTruthy(output.value) THEN trueCondition ELSE falseCondition

\* { ...cond, Next }: a branch of a Choice state
Choice(cond, next) == [Next |-> next] @@ cond

(***************************************************************************)
(* The state of one compilation: the heap counter and the name allocators. *)
(* A lowering routine takes it as st and returns it next to its result r.  *)
(***************************************************************************)

\* FUNCTIONLESS_CONTEXT_JSON_PATH.null: the path that holds null
ContextNull == "$.fnl_context.null"

NewCompilation ==
    [heapCounter |-> 0, stateNames |-> {}, variableNames |-> {},
     variableNamesMap |-> <<>>, error |-> ""]

\* a SynthError or Error thrown by the lowering: the first one is kept
SynthError(st, message) == IF st.error = "" THEN [st EXCEPT !.error = message] ELSE st

\* whether the step that returned x threw
Threw(x) == x.st.error # ""

\* what a step returns after an error was thrown: the error leaves the
\* constructor, nothing is lowered any more
Abort(x) == [r |-> Nothing, st |-> x.st]

\* newHeapVariable(): `$.heap${this.heapCounter++}`
newHeapVariable(st) ==
    [path |-> "$.heap" \o ToString(st.heapCounter),
     st |-> [st EXCEPT !.heapCounter = @ + 1]]

\* getIdentifierName(identifier): the name of the declaration it refers to
getIdentifierName(identifier, st) ==
    LET r == getDeclarationName(st.variableNamesMap, st.variableNames,
                                identifier.decl, identifier.name)
    IN [name |-> r.name,
        st |-> [st EXCEPT !.variableNames = r.names, !.variableNamesMap = r.map]]

\* stateWithHeapOutput(state, node)
stateWithHeapOutput(state, node, st) ==
    LET heap == newHeapVariable(st)
    IN [r |-> WithNode([ResultPath |-> heap.path, output |-> [jsonPath |-> heap.path]]
                       @@ state, node),
        st |-> heap.st]

RECURSIVE assignValue(_, _, _, _, _)
RECURSIVE conditionState(_, _, _, _, _, _, _)
\* assignValue(node, value, targetJsonPath): the states that put the value at
\* the target, a new heap variable when targetJsonPath is "" (undefined);
\* origin says what the states are made for
assignValue(node, value, targetJsonPath, origin, st) ==
    IF isConditionOutput(value)
    THEN conditionState(node, value.condition, Nothing, Nothing, targetJsonPath,
                        origin, st)
    ELSE LET heap == IF targetJsonPath = "" THEN newHeapVariable(st)
                     ELSE [path |-> targetJsonPath, st |-> st]
         IN [r |-> WithNode(
                     [output |-> [jsonPath |-> heap.path], origin |-> origin]
                     @@ passWithInput([Type |-> "Pass", Next |-> DeferNext,
                                       ResultPath |-> heap.path], value),
                     node),
             st |-> heap.st]

\* conditionState(node, cond, trueState, falseState, outputJsonPath): a Choice
\* on cond, then the states of the branch taken, then the assignment of its
\* output to the output path
conditionState(node, cond, trueState, falseState, outputJsonPath, origin, st) ==
    LET trueOutput == IF IsNothing(trueState)
                      THEN [value |-> JBool(TRUE), containsJsonPath |-> FALSE]
                      ELSE getAslStateOutput(trueState)
        falseOutput == IF IsNothing(falseState)
                       THEN [value |-> JBool(FALSE), containsJsonPath |-> FALSE]
                       ELSE getAslStateOutput(falseState)
        heap == IF outputJsonPath = "" THEN newHeapVariable(st)
                ELSE [path |-> outputJsonPath, st |-> st]
        tempHeap == heap.path
        branch(state, output, role, s) ==
            LET asOrigin == [origin EXCEPT !.role = role]
                assign == IF isJsonPath(output) /\ output.jsonPath = tempHeap
                          THEN [r |-> [Type |-> "Pass", Next |-> DeferNext,
                                       origin |-> asOrigin],
                                st |-> s]
                          ELSE assignValue(Nothing, output, tempHeap, asOrigin, s)
            IN [r |-> joinSubStates(
                        IF isStateOrSubState(state) /\ Has(state, "node")
                        THEN state.node ELSE Nothing,
                        <<state, assign.r>>),
                st |-> assign.st]
        whenTrue == branch(trueState, trueOutput, "true", heap.st)
        whenFalse == branch(falseState, falseOutput, "false", whenTrue.st)
    IN [r |-> WithNode(
                [startState |-> "default",
                 states |-> <<
                    Entry("default",
                          [Type |-> "Choice",
                           Choices |-> <<Choice(cond, "true")>>,
                           Default |-> "false",
                           origin |-> [origin EXCEPT !.role = "choice"]]),
                    Entry("true", whenTrue.r),
                    Entry("false", whenFalse.r)>>,
                 output |-> [jsonPath |-> tempHeap]],
                node),
        st |-> whenFalse.st]

(***************************************************************************)
(* ASL.throw: where an error raised at a node goes                         *)
(***************************************************************************)

\* ASL.CatchState, ASL.BreakNext, ASL.ContinueNext: the labels a try or a
\* loop defines for the states inside it
CatchState == "__catch"

BreakNext == "__BreakNext"

ContinueNext == "__ContinueNext"

\* the function at closure is the callback of map, filter or forEach called
\* on an array that is not a reference
isArrayCallback(root, closure) ==
    /\ Len(closure) > 0
    /\ closure[Len(closure)] = "callback"
    /\ LET call == NodeAt(root, Parent(closure))
       IN /\ call.kind = "CallExpr"
          /\ Has(call, "method")
          /\ call.method \in {"map", "filter", "forEach"}
          /\ call.expr.kind # "ReferenceExpr"

\* the path an error caught by the handler is written to
CatchResultPath(root, handler) ==
    LET h == NodeAt(root, handler)
        try == NodeAt(root, Parent(handler))
    IN IF \/ h.kind = "CatchClause" /\ IsNode(h.variableDecl)
          \/ /\ h.kind = "BlockStmt"
             /\ handler[Len(handler)] = "finallyBlock"
             /\ IsNode(try.catchClause)
             /\ canThrow(try.catchClause)
             /\ ~isTerminal(h)
       THEN "$." \o GeneratedName(handler)
       ELSE NoResultPath

\* throw(node): the transition an error raised at the node takes, Nothing
\* when the error ends the machine
throw(root, path) ==
    LET mapOrParallelClosure == FindFunction(root, path)
        catchOrFinally == NodeThrow(root, path)
    IN IF catchOrFinally = <<"none">> THEN Nothing
       ELSE IF \/ mapOrParallelClosure = <<"none">>
               \/ isArrayCallback(root, mapOrParallelClosure)
               \/ IsPrefix(mapOrParallelClosure, catchOrFinally)
            THEN [Next |-> CatchState,
                  ResultPath |-> CatchResultPath(root, catchOrFinally)]
            ELSE Nothing

(***************************************************************************)
(* ASL.eval: the lowering of an expression to an output, or to states that *)
(* have an output                                                          *)
(***************************************************************************)

isOutputStateOrSubState(x) == isStateOrSubState(x) /\ Has(x, "output")

\* the states evalContext collects from an evaluated expression
Collected(result) == IF isOutputStateOrSubState(result) THEN <<result>> ELSE <<>>

\* evalContext(contextNode, handler): the collected states joined with what
\* the handler returned, or the bare output when there are no states
evalContext(contextNode, states, handlerState) ==
    LET joined == joinSubStates(contextNode, Append(states, handlerState))
    IN IF IsNothing(joined) THEN getAslStateOutput(handlerState)
       ELSE WithOutput(joined, getAslStateOutput(handlerState))

Literal(value) == [value |-> value, containsJsonPath |-> FALSE]

(***************************************************************************)
(* Intrinsic functions: a call States.fn(args), an argument a path, a      *)
(* literal or a call                                                       *)
(***************************************************************************)

\* NaN, which no JSON value stands for
NaN == [t |-> "NaN"]

isIntrinsic(x) == Has(x, "fn")

Intrinsic(fn, args) == [fn |-> "States." \o fn, args |-> args]

intrinsicMathAdd(a, b) == Intrinsic("MathAdd", <<a, b>>)

intrinsicFormat(format, args) == Intrinsic("Format", <<Literal(JStr(format))>> \o args)

intrinsicStringSplit(string, separator) == Intrinsic("StringSplit", <<string, separator>>)

intrinsicArrayGetItem(array, index) ==
    Intrinsic("ArrayGetItem", <<array, Literal(JNum(index))>>)

intrinsicStringToJson(string) == Intrinsic("StringToJson", <<string>>)

intrinsicJsonToString(json) == Intrinsic("JsonToString", <<json>>)

intrinsicJsonMerge(a, b) == Intrinsic("JsonMerge", <<a, b, Literal(JBool(FALSE))>>)

RECURSIVE RenderIntrinsic(_)
RECURSIVE RenderArguments(_)
\* the text of an intrinsic function, a path or a literal in Parameters
RenderIntrinsic(x) ==
    IF isIntrinsic(x) THEN x.fn \o "(" \o RenderArguments(x.args) \o ")"
    ELSE IF isJsonPath(x) THEN x.jsonPath
    ELSE IF x.value = NaN THEN "NaN"
    ELSE IF x.value.t = "string" THEN "'" \o x.value.v \o "'"
    ELSE JsonStringify(x.value)

RenderArguments(args) ==
    IF Len(args) = 0 THEN ""
    ELSE RenderIntrinsic(args[1])
         \o (IF Len(args) > 1 THEN "," \o RenderArguments(Tail(args)) ELSE "")

\* ASLGraph.assignJsonPathOrIntrinsic(jsonPathOrIntrinsic, target,
\* propertyName, next): the Pass that puts the value of the path or of the
\* intrinsic function at target.propertyName
assignJsonPathOrIntrinsic(jsonPathOrIntrinsic, target, propertyName, next, origin) ==
    [Type |-> "Pass",
     Parameters |-> <<IF isJsonPath(jsonPathOrIntrinsic)
                      THEN [name |-> propertyName \o ".$",
                            value |-> jsonPathOrIntrinsic.jsonPath]
                      ELSE [name |-> propertyName \o ".$",
                            value |-> RenderIntrinsic(jsonPathOrIntrinsic),
                            intrinsic |-> jsonPathOrIntrinsic]>>,
     ResultPath |-> target,
     Next |-> next,
     output |-> [jsonPath |-> target \o "." \o propertyName],
     origin |-> origin]

\* this.assignJsonPathOrIntrinsic(jsonPathOrIntrinsic): the same, the target
\* a new heap variable and the property `out`
assignToHeap(jsonPathOrIntrinsic, origin, st) ==
    [r |-> assignJsonPathOrIntrinsic(jsonPathOrIntrinsic, newHeapVariable(st).path, "out",
                                     DeferNext, origin),
     st |-> newHeapVariable(st).st]

\* the state of a call of an integration: a Task with its result on the heap
IntegrationTask(root, path, st) ==
    stateWithHeapOutput([Type |-> "Task", Resource |-> NodeAt(root, path).integration,
                         Next |-> DeferNext,
                         origin |-> [at |-> path, role |-> "task"]],
                        NodeOf(root, path), st)

\* the Catch a task state is given when its error has a handler
WithCatch(state, throwOrPass) ==
    IF ~IsNothing(throwOrPass) /\ state.Type \in {"Task", "Map", "Parallel"}
    THEN [Catch |-> <<[ErrorEquals |-> <<"States.ALL">>,
                       Next |-> throwOrPass.Next,
                       ResultPath |-> throwOrPass.ResultPath]>>] @@ state
    ELSE state

\* ASLGraph.isAslGraphOutput: a bare output, neither a state nor a sub-state
isAslGraphOutput(x) == ~isStateOrSubState(x)

\* mutant: only a state that is the whole graph is given the Catch
UpdateTopStateOnly(states, throwOrPass) ==
    IF isSubState(states) THEN states ELSE WithCatch(states, throwOrPass)

RECURSIVE updateStates(_, _)
\* updateStates(states): updateState applied to every state of the graph,
\* those of the sub-states in it included
updateStates(states, throwOrPass) ==
    IF isSubState(states)
    THEN [states EXCEPT !.states =
            [i \in 1..Len(states.states) |->
                Entry(states.states[i].key,
                      updateStates(states.states[i].state, throwOrPass))]]
    ELSE WithCatch(states, throwOrPass)

\* the graphs the integrations return
HookOutput == [jsonPath |-> "$.input"]

HookState(type, path) ==
    [Type |-> type, Next |-> DeferNext, ResultPath |-> "$.result",
     output |-> [jsonPath |-> "$.result"],
     origin |-> [at |-> path, role |-> "hook"]]

\* a sub-state that holds states of every type, one of them a sub-state
HookSubState(path) ==
    [startState |-> "first",
     states |-> <<Entry("first", Without(HookState("Pass", path), {"output"})
                                  @@ [Next |-> "inner"]),
                  Entry("inner",
                        [startState |-> "call",
                         states |-> <<Entry("call", Without(HookState("Task", path),
                                                            {"output"})
                                                    @@ [Next |-> "each"]),
                                      Entry("each", Without(HookState("Map", path),
                                                            {"output"})
                                                    @@ [Next |-> "done"]),
                                      Entry("done",
                                            [Type |-> "Choice",
                                             Choices |-> <<Choice(isPresent("$.result"),
                                                                  DeferNext)>>,
                                             Default |-> DeferNext,
                                             origin |-> [at |-> path, role |-> "hook"]])>>]),
                  Entry("both", Without(HookState("Parallel", path), {"output"}))>>,
     output |-> [jsonPath |-> "$.result"],
     origin |-> [at |-> path, role |-> "hook"]]

\* integration.asl(expr, this): what the integration the call names returns
IntegrationStates(root, path, st) ==
    LET name == NodeAt(root, path).integration
    IN CASE name = "output" -> [r |-> HookOutput, st |-> st]
         [] name = "pass" -> [r |-> HookState("Pass", path), st |-> st]
         [] name = "map" -> [r |-> HookState("Map", path), st |-> st]
         [] name = "parallel" -> [r |-> HookState("Parallel", path), st |-> st]
         [] name = "nested" -> [r |-> HookSubState(path), st |-> st]
         [] OTHER -> IntegrationTask(root, path, st)

\* eval of the call of an integration: the graph the integration returns,
\* its task states given the Catch
Integrated(integStates, throwOrPass) ==
    IF isAslGraphOutput(integStates.r) THEN integStates
    ELSE [r |-> updateStates(integStates.r, throwOrPass), st |-> integStates.st]

\* left op right for literal operands, op one of &&, ||, ??
LogicalLiteral(op, left, right) ==
    CASE op = "&&" -> IF JTruthy(left) THEN right ELSE left
      [] op = "||" -> IF JTruthy(left) THEN left ELSE right
      [] OTHER -> IF left.t # "null" THEN left ELSE right

\* the literal left operand is the value of left op right
KeepsLeft(op, left) ==
    CASE op = "&&" -> ~JTruthy(left)
      [] op = "||" -> JTruthy(left)
      [] OTHER -> left.t # "null"

\* ASLGraph.assignJsonPathOrIntrinsic(intrinsicStringToJson(jsonPath), target,
\* propertyName): the parsed string at jsonPath becomes target.propertyName
ParseJsonTo(jsonPath, target, propertyName, origin) ==
    [Type |-> "Pass",
     Parameters |-> <<[name |-> propertyName \o ".$",
                       value |-> "States.StringToJson(" \o jsonPath \o ")"]>>,
     ResultPath |-> target,
     Next |-> DeferNext,
     output |-> [jsonPath |-> target \o "." \o propertyName],
     origin |-> origin]

RECURSIVE eval(_, _, _)
RECURSIVE ArrayMethod(_, _, _)
RECURSIVE ArrayJoin(_, _, _)
RECURSIVE ElementAccess(_, _, _)

(***************************************************************************)
(* Numbers: toNumber, negation, subtraction                                *)
(***************************************************************************)

\* the numbers the texts of which are parsed
ParsedNumbers == (0 - 20)..20

\* Number(text): the number a string stands for, NaN when it stands for none
StringToNumber(text) ==
    IF text = "" THEN JNum(0)
    ELSE IF \E n \in ParsedNumbers : ToString(n) = text
    THEN JNum(CHOOSE n \in ParsedNumbers : ToString(n) = text)
    ELSE NaN

\* Number(value) of a literal value
Number(value) ==
    CASE value.t = "number" -> value
      [] value.t = "null" -> JNum(0)
      [] value.t = "boolean" -> JNum(IF value.v THEN 1 ELSE 0)
      [] value.t = "string" -> StringToNumber(value.v)
      [] OTHER -> NaN

\* mutant: a string at the path is taken as it is, like a number
ToNumberChoicesUnparsed(path) ==
    <<Choice(isNotPresent(path), "null"),
      Choice(and(<<isString(path), stringEquals(path, "")>>), "zero"),
      Choice(isNull(path), "zero"),
      Choice(isString(path), "assign"),
      Choice(isNumeric(path), "assign"),
      Choice(and(<<isBoolean(path), booleanEquals(path, TRUE)>>), "one"),
      Choice(and(<<isBoolean(path), booleanEquals(path, FALSE)>>), "zero")>>

\* the branches of the check of jsonPathValueToNumber
ToNumberChoices(path) ==
    <<Choice(isNotPresent(path), "null"),
      Choice(and(<<isString(path), stringEquals(path, "")>>), "zero"),
      Choice(isNull(path), "zero"),
      Choice(isString(path), "format"),
      Choice(isNumeric(path), "assign"),
      Choice(and(<<isBoolean(path), booleanEquals(path, TRUE)>>), "one"),
      Choice(and(<<isBoolean(path), booleanEquals(path, FALSE)>>), "zero")>>

\* jsonPathValueToNumber(jsonPath, resultPath): the sub-state that leaves
\* the number the value at the path stands for, or null, in resultPath.num,
\* resultPath a new heap variable when it is "" (undefined)
jsonPathValueToNumber(jsonPath, resultPath, origin, st) ==
    LET heap == IF resultPath = "" THEN newHeapVariable(st)
                ELSE [path |-> resultPath, st |-> st]
        num == heap.path \o ".num"
        as(role) == [origin EXCEPT !.role = "toNumber." \o role]
    IN [r |-> [startState |-> "check",
               states |-> <<
                 Entry("check",
                       [Type |-> "Choice",
                        Choices |-> ToNumberChoices(jsonPath.jsonPath),
                        Default |-> "null",
                        origin |-> as("check")]),
                 Entry("format",
                       [ParseJsonTo(jsonPath.jsonPath, heap.path, "num", as("format"))
                          EXCEPT !.Next = "checkStringOutput"]),
                 Entry("checkStringOutput",
                       [Type |-> "Choice",
                        Choices |-> <<Choice(isNumeric(num), DeferNext)>>,
                        Default |-> "null",
                        origin |-> as("checkStringOutput")]),
                 Entry("assign",
                       assignValue(Nothing, jsonPath, num, as("assign"), heap.st).r),
                 Entry("one",
                       assignValue(Nothing, Literal(JNum(1)), num, as("one"), heap.st).r),
                 Entry("zero",
                       assignValue(Nothing, Literal(JNum(0)), num, as("zero"), heap.st).r),
                 Entry("null",
                       assignValue(Nothing, [jsonPath |-> ContextNull], num, as("null"),
                                   heap.st).r)>>,
               output |-> [jsonPath |-> num]],
        st |-> heap.st]

\* a Pass that puts the literal result at the path, and has it as output
ResultAt(value, path, origin) ==
    [Type |-> "Pass", Result |-> value, Next |-> DeferNext, ResultPath |-> path,
     output |-> [jsonPath |-> path], origin |-> origin]

\* the condition as a number at a new heap variable: 1 when it holds, else 0
ConditionToNumber(node, condition, origin, temp) ==
    conditionState(node, condition,
                   ResultAt(JNum(1), temp.path, [origin EXCEPT !.role = "toNumber.true"]),
                   ResultAt(JNum(0), temp.path, [origin EXCEPT !.role = "toNumber.false"]),
                   temp.path, origin, temp.st)

\* the handler of evalToNumber, given the evaluated operand at path
ToNumberHandled(root, path, operand, handled) ==
    IF Threw(handled) THEN Abort(handled) ELSE
    [r |-> evalContext(NodeOf(root, path), Collected(operand.r), handled.r),
     st |-> handled.st]

ToNumberOutput(root, path, operand, output, origin) ==
    ToNumberHandled(root, path, operand,
      IF isConditionOutput(output)
      THEN ConditionToNumber(NodeOf(root, path), output.condition, origin,
                             newHeapVariable(operand.st))
      ELSE IF isJsonPath(output)
      THEN jsonPathValueToNumber(output, "", origin, operand.st)
      ELSE [r |-> Literal(Number(output.value)), st |-> operand.st])

ToNumberOf(root, path, operand) ==
    IF Threw(operand) THEN Abort(operand) ELSE
    ToNumberOutput(root, path, operand, getAslStateOutput(operand.r),
                   [at |-> path, role |-> "toNumber"])

\* evalToNumber(expr), expr being the node at path
evalToNumber(root, path, st) == ToNumberOf(root, path, eval(root, path, st))

\* -value of the number or NaN a literal holds
Negated(value) == IF value = NaN THEN NaN ELSE JNum(0 - value.v)

\* negateJsonPathOrLiteralValue(output): the negated literal, or the
\* sub-state that leaves the negated number at the path, null for null, in
\* <heap>.num
negateJsonPathOrLiteralValue(output, origin, st) ==
    IF isLiteralValue(output)
    THEN [r |-> IF output.value.t = "null" THEN output
                ELSE Literal(Negated(output.value)),
          st |-> st]
    ELSE LET heap == newHeapVariable(st)
             as(role) == [origin EXCEPT !.role = "negate." \o role]
         IN [r |-> [startState |-> "check",
                    states |-> <<
                      Entry("check",
                            [Type |-> "Choice",
                             Choices |-> <<Choice(isNull(output.jsonPath), "NaN"),
                                           Choice(numericLessThan(output.jsonPath, 0),
                                                  "negative")>>,
                             Default |-> "positive",
                             origin |-> as("check")]),
                      Entry("NaN",
                            assignValue(Nothing, [jsonPath |-> ContextNull],
                                        heap.path \o ".num", as("NaN"), heap.st).r),
                      Entry("negative",
                            joinSubStates(Nothing,
                              <<assignJsonPathOrIntrinsic(
                                  intrinsicStringSplit(intrinsicFormat("{}", <<output>>),
                                                       Literal(JStr("-"))),
                                  heap.path, "num", DeferNext, as("negative.split")),
                                assignJsonPathOrIntrinsic(
                                  intrinsicStringToJson(
                                    intrinsicArrayGetItem(
                                      [jsonPath |-> heap.path \o ".num"], 0)),
                                  heap.path, "num", DeferNext, as("negative"))>>)),
                      Entry("positive",
                            assignJsonPathOrIntrinsic(
                              intrinsicStringToJson(intrinsicFormat("-{}", <<output>>)),
                              heap.path, "num", DeferNext, as("positive")))>>,
                    output |-> [jsonPath |-> heap.path \o ".num"]],
             st |-> heap.st]

\* the number of an operand of minus: Number(value) of a literal, the
\* sub-state of jsonPathValueToNumber for a path
MinusNumber(out, origin, st) ==
    IF isLiteralValue(out) THEN [r |-> Literal(Number(out.value)), st |-> st]
    ELSE jsonPathValueToNumber(out, "", origin, st)

\* minus, the operands made numbers and the right one negated
MinusAdded(states, add) ==
    [r |-> evalContext(Nothing, states, add.r), st |-> add.st]

MinusAdd(leftNumber, rightNumber, negatedRight, origin) ==
    IF /\ isLiteralValue(getAslStateOutput(negatedRight.r))
       /\ getAslStateOutput(negatedRight.r).value.t = "null"
    THEN MinusAdded(Collected(leftNumber.r) \o Collected(rightNumber.r)
                      \o Collected(negatedRight.r),
                    [r |-> getAslStateOutput(negatedRight.r), st |-> negatedRight.st])
    ELSE MinusAdded(Collected(leftNumber.r) \o Collected(rightNumber.r)
                      \o Collected(negatedRight.r),
                    assignToHeap(intrinsicMathAdd(getAslStateOutput(leftNumber.r),
                                                  getAslStateOutput(negatedRight.r)),
                                 [origin EXCEPT !.role = "minus.add"], negatedRight.st))

MinusRight(leftNumber, rightNumber, origin) ==
    MinusAdd(leftNumber, rightNumber,
             negateJsonPathOrLiteralValue(getAslStateOutput(rightNumber.r),
                                          [origin EXCEPT !.role = "right"], rightNumber.st),
             origin)

MinusLeft(leftNumber, rightOut, origin) ==
    IF isLiteralValue(leftNumber.r) /\ leftNumber.r.value = NaN
    THEN [r |-> Literal(JNull), st |-> leftNumber.st]
    ELSE MinusRight(leftNumber,
                    MinusNumber(rightOut, [origin EXCEPT !.role = "right"], leftNumber.st),
                    origin)

\* minus(leftOut, rightOut): toNumber(left) + (-toNumber(right)); origin.at
\* is the place of the expression
minus(leftOut, rightOut, origin, st) ==
    MinusLeft(MinusNumber(leftOut, [origin EXCEPT !.role = "left"], st), rightOut, origin)

\* the handler of left - right, given the evaluated operands
BinaryResult(root, path, left, right, result) ==
    IF Threw(result) THEN Abort(result) ELSE
    [r |-> evalContext(NodeOf(root, path), Collected(left.r) \o Collected(right.r),
                       result.r),
     st |-> result.st]

MinusOf(root, path, left, right) ==
    IF Threw(right) THEN Abort(right) ELSE
    BinaryResult(root, path, left, right,
                 minus(getAslStateOutput(left.r), getAslStateOutput(right.r),
                       [at |-> path, role |-> "minus"], right.st))

MinusOperands(root, path, left) ==
    IF Threw(left) THEN Abort(left) ELSE
    MinusOf(root, path, left, eval(root, Append(path, "right"), left.st))

(***************************************************************************)
(* Object literals                                                         *)
(***************************************************************************)

\* ASLGraph.jsonAssignment(name, output): the member that takes the output,
\* its name ending with .$ when the output is a path
jsonAssignment(name, output) ==
    IF isJsonPath(output)
    THEN JObj(<<[k |-> name \o ".$", v |-> JStr(output.jsonPath)]>>)
    ELSE JObj(<<[k |-> name, v |-> output.value]>>)

\* { ...left, ...right } of two objects
MergeObjects(left, right) ==
    JObj(SelectSeq(left.members,
                   LAMBDA m : \A i \in 1..Len(right.members) : right.members[i].k # m.k)
         \o right.members)

\* ASLGraph.mergeLiteralObject(prev, output)
mergeLiteralObject(prev, output) ==
    [value |-> MergeObjects(prev.value, output.value),
     containsJsonPath |-> prev.containsJsonPath \/ output.containsJsonPath]

\* evalSafeOutput, mutant: nothing is copied
evalSafeOutputUncopied(output, origin, st) == [r |-> output, st |-> st]

\* evalSafeOutput: the value of a property that is not the last one, a path
\* that can change copied to a new heap variable
evalSafeOutput(output, origin, st) ==
    IF isJsonPath(output) /\ ~(Len(output.jsonPath) > 2 /\ SubSeq(output.jsonPath, 1, 3) = "$$.")
    THEN assignValue(Nothing, output, "", origin, st)
    ELSE [r |-> output, st |-> st]

\* what a property adds to the outputs of the object literal
PropertyOutputs(prop, output) ==
    IF prop.kind = "SpreadAssignExpr"
    THEN IF isLiteralValue(output) /\ output.value.t = "null" THEN <<>> ELSE <<output>>
    ELSE <<[value |-> jsonAssignment(prop.name, output),
            containsJsonPath |-> isJsonPath(output) \/ output.containsJsonPath]>>

\* the property is a spread of a literal that is no object
SpreadsNoObject(prop, output) ==
    /\ prop.kind = "SpreadAssignExpr"
    /\ isLiteralValue(output)
    /\ output.value.t \notin {"null", "object"}

\* the i-th property added to what the properties before it gave: value is
\* its evaluated expression, safe its output copied unless it is the last
ObjectProperty(prop, acc, value, safe) ==
    [outputs |-> acc.outputs \o PropertyOutputs(prop, getAslStateOutput(safe.r)),
     states |-> acc.states \o Collected(value.r) \o Collected(safe.r),
     st |-> IF SpreadsNoObject(prop, getAslStateOutput(safe.r))
            THEN SynthError(safe.st, "Object spread can be only be done on objects, undefined, or null.")
            ELSE safe.st]

ObjectPropertyOf(root, path, i, acc, value) ==
    IF Threw(value) THEN [acc EXCEPT !.st = value.st] ELSE
    ObjectProperty(NodeAt(root, path).properties[i], acc, value,
                   IF i = Len(NodeAt(root, path).properties)
                   THEN [r |-> getAslStateOutput(value.r), st |-> value.st]
                   ELSE evalSafeOutput(getAslStateOutput(value.r),
                                       [at |-> Append(path, ToString(i)), role |-> "hoist"],
                                       value.st))

RECURSIVE ObjectProperties(_, _, _, _)
\* the outputs and the states of the properties from the i-th on, in order
ObjectProperties(root, path, i, acc) ==
    IF i > Len(NodeAt(root, path).properties) \/ acc.st.error # "" THEN acc
    ELSE ObjectProperties(root, path, i + 1,
           ObjectPropertyOf(root, path, i, acc,
                            eval(root, path \o <<ToString(i), "expr">>, acc.st)))

RECURSIVE MergeLiterals(_)
\* the outputs, the literals that follow one another merged
MergeLiterals(outputs) ==
    IF Len(outputs) < 2 THEN outputs
    ELSE IF isLiteralValue(outputs[1]) /\ isLiteralValue(outputs[2])
    THEN MergeLiterals(<<mergeLiteralObject(outputs[1], outputs[2])>>
                       \o SubSeq(outputs, 3, Len(outputs)))
    ELSE <<outputs[1]>> \o MergeLiterals(Tail(outputs))

\* the i-th output as an argument of States.JsonMerge: a literal that holds
\* a path is put at a new heap variable first
MergeArgument(output, path, i, acc) ==
    IF isJsonPath(output)
    THEN [acc EXCEPT !.args = Append(@, output)]
    ELSE IF output.containsJsonPath
    THEN LET assigned == assignValue(Nothing, output, "",
                                     [at |-> path, role |-> "normalize"], acc.st)
         IN [args |-> Append(acc.args, getAslStateOutput(assigned.r)),
             states |-> Append(acc.states, assigned.r),
             st |-> assigned.st]
    ELSE [acc EXCEPT !.args =
            Append(@, intrinsicStringToJson(Literal(JStr(JsonStringify(output.value)))))]

RECURSIVE MergeArguments(_, _, _, _)
MergeArguments(outputs, path, i, acc) ==
    IF i > Len(outputs) THEN acc
    ELSE MergeArguments(outputs, path, i + 1, MergeArgument(outputs[i], path, i, acc))

RECURSIVE JsonMergeAll(_)
\* args.reduce(intrinsicJsonMerge)
JsonMergeAll(args) ==
    IF Len(args) = 1 THEN args[1]
    ELSE intrinsicJsonMerge(JsonMergeAll(SubSeq(args, 1, Len(args) - 1)), args[Len(args)])

\* the object literal of the merged outputs
ObjectOf(root, path, outputs, merged) ==
    LET assigned == assignToHeap(JsonMergeAll(merged.args),
                                 [at |-> path, role |-> "merge"], merged.st)
    IN IF Len(outputs) = 0
       THEN [handled |-> Literal(JObj(<<>>)), states |-> <<>>, st |-> merged.st]
       ELSE IF Len(outputs) = 1
       THEN [handled |-> outputs[1], states |-> <<>>, st |-> merged.st]
       ELSE [handled |-> assigned.r, states |-> merged.states, st |-> assigned.st]

\* the handler of an object literal, given its properties
ObjectLiteralOf(root, path, properties, object) ==
    [r |-> evalContext(NodeOf(root, path), properties.states \o object.states,
                       object.handled),
     st |-> object.st]

ObjectLiteralMerged(root, path, properties, outputs) ==
    ObjectLiteralOf(root, path, properties,
      ObjectOf(root, path, outputs,
               IF Len(outputs) < 2 THEN [args |-> <<>>, states |-> <<>>, st |-> properties.st]
               ELSE MergeArguments(outputs, path, 1,
                                   [args |-> <<>>, states |-> <<>>, st |-> properties.st])))

ObjectLiteral(root, path, properties) ==
    IF properties.st.error # "" THEN [r |-> Nothing, st |-> properties.st]
    ELSE ObjectLiteralMerged(root, path, properties, MergeLiterals(properties.outputs))

\* String(value) of a literal value
StringOf(value) ==
    IF value = NaN THEN "NaN"
    ELSE IF value.t = "string" THEN value.v
    ELSE JsonStringify(value)

isLiteralString(o) == isLiteralValue(o) /\ o.value # NaN /\ o.value.t = "string"

\* jsonPathValueToString(jsonPath, resultPath): the sub-state that leaves
\* the string of the value at the path in resultPath.str
jsonPathValueToString(jsonPath, resultPath, origin, st) ==
    LET heap == IF resultPath = "" THEN newHeapVariable(st)
                ELSE [path |-> resultPath, st |-> st]
        as(role) == [origin EXCEPT !.role = "toString." \o role]
    IN [r |-> [startState |-> "checkString",
               states |-> <<
                 Entry("checkString",
                       [Type |-> "Choice",
                        Choices |-> <<Choice(isString(jsonPath.jsonPath), "assign")>>,
                        Default |-> "format",
                        origin |-> as("checkString")]),
                 Entry("format",
                       assignJsonPathOrIntrinsic(intrinsicJsonToString(jsonPath),
                                                 heap.path, "str", DeferNext, as("format"))),
                 Entry("assign",
                       [Type |-> "Pass", InputPath |-> jsonPath.jsonPath,
                        ResultPath |-> heap.path \o ".str", Next |-> DeferNext,
                        origin |-> as("assign")])>>,
               output |-> [jsonPath |-> heap.path \o ".str"]],
        st |-> heap.st]

\* Number(left) + Number(right) of two literal values
LiteralSum(left, right) ==
    IF Number(left) = NaN \/ Number(right) = NaN THEN NaN
    ELSE JNum(Number(left).v + Number(right).v)

\* numericAdd(leftOut, rightOut): the sum of the numbers of the operands, in
\* <heap>.str
numericAdd(leftOut, rightOut, origin, st) ==
    LET heap == newHeapVariable(st)
        side(out, name) ==
            IF isLiteralValue(out) THEN Nothing
            ELSE jsonPathValueToNumber(out, heap.path \o ".str." \o name, origin, heap.st).r
        argument(out, name) ==
            IF isLiteralValue(out) THEN Literal(Number(out.value))
            ELSE [jsonPath |-> heap.path \o ".str." \o name \o ".num"]
    IN IF isLiteralValue(leftOut) /\ isLiteralValue(rightOut)
       THEN [r |-> Literal(LiteralSum(leftOut.value, rightOut.value)), st |-> heap.st]
       ELSE [r |-> WithOutput(
                     joinSubStates(Nothing,
                       <<side(leftOut, "left"), side(rightOut, "right"),
                         assignJsonPathOrIntrinsic(
                           intrinsicMathAdd(argument(leftOut, "left"),
                                            argument(rightOut, "right")),
                           heap.path, "str", DeferNext,
                           [origin EXCEPT !.role = "plus.add"])>>),
                     [jsonPath |-> heap.path \o ".str"]),
             st |-> heap.st]

\* stringConcat(leftOut, rightOut): the strings of the operands one after
\* the other, in <heap>.str
stringConcat(leftOut, rightOut, origin, st) ==
    LET heap == newHeapVariable(st)
        side(out, name) ==
            IF isLiteralValue(out) THEN Nothing
            ELSE jsonPathValueToString(out, heap.path \o ".str." \o name, origin, heap.st).r
        argument(out, name) ==
            IF isLiteralValue(out) THEN Literal(JStr(StringOf(out.value)))
            ELSE [jsonPath |-> heap.path \o ".str." \o name \o ".str"]
    IN IF isLiteralValue(leftOut) /\ isLiteralValue(rightOut)
       THEN [r |-> Literal(JStr(StringOf(leftOut.value) \o StringOf(rightOut.value))),
             st |-> heap.st]
       ELSE [r |-> WithOutput(
                     joinSubStates(Nothing,
                       <<side(leftOut, "left"), side(rightOut, "right"),
                         assignJsonPathOrIntrinsic(
                           intrinsicFormat("{}{}", <<argument(leftOut, "left"),
                                                     argument(rightOut, "right")>>),
                           heap.path, "str", DeferNext,
                           [origin EXCEPT !.role = "plus.concat"])>>),
                     [jsonPath |-> heap.path \o ".str"]),
             st |-> heap.st]

\* the branches of plus when an operand is a path: the strings put
\* together when an operand holds a string, the numbers added otherwise
PlusEither(leftOut, rightOut, node, origin, concat, add) ==
    conditionState(node,
                   or((IF isJsonPath(leftOut) THEN <<isString(leftOut.jsonPath)>> ELSE <<>>)
                      \o (IF isJsonPath(rightOut) THEN <<isString(rightOut.jsonPath)>>
                          ELSE <<>>)),
                   concat.r, add.r, "", [origin EXCEPT !.role = "plus"], add.st)

\* plus(leftOut, rightOut, node)
PlusAdded(leftOut, rightOut, node, origin, concat, add) ==
    IF isLiteralString(leftOut) \/ isLiteralString(rightOut) THEN concat
    ELSE IF isLiteralValue(leftOut) /\ isLiteralValue(rightOut) THEN add
    ELSE PlusEither(leftOut, rightOut, node, origin, concat, add)

PlusConcatenated(leftOut, rightOut, node, origin, st, concat) ==
    PlusAdded(leftOut, rightOut, node, origin, concat,
              numericAdd(leftOut, rightOut, origin,
                         IF isLiteralValue(leftOut) /\ isLiteralValue(rightOut)
                         THEN st ELSE concat.st))

plus(leftOut, rightOut, node, origin, st) ==
    PlusConcatenated(leftOut, rightOut, node, origin, st,
                     stringConcat(leftOut, rightOut, origin, st))

\* the handler of left + right, given the evaluated operands
PlusOf(root, path, left, right) ==
    IF Threw(right) THEN Abort(right) ELSE
    BinaryResult(root, path, left, right,
                 plus(getAslStateOutput(left.r), getAslStateOutput(right.r),
                      NodeOf(root, path), [at |-> path, role |-> "plus"], right.st))

PlusOperands(root, path, left) ==
    IF Threw(left) THEN Abort(left) ELSE
    PlusOf(root, path, left, eval(root, Append(path, "right"), left.st))

\* the condition on which x ??= y, x ||= y, x &&= y keep x
KeepsVariable(op, jsonPath) ==
    CASE op = "||=" -> isTruthy(jsonPath)
      [] op = "&&=" -> not(isTruthy(jsonPath))
      [] OTHER -> isPresentAndNotNull(jsonPath)

\* x += y and x -= y: the sum or the difference computed, then put in x;
\* the output is the computed result
CompoundAssigned(root, path, left, right, addResult, assign) ==
    [r |-> evalContext(NodeOf(root, path),
                       Collected(left.r) \o Collected(right.r)
                         \o Collected(addResult.r) \o <<assign.r>>,
                       getAslStateOutput(addResult.r)),
     st |-> assign.st]

CompoundAdd(root, path, left, right, addResult) ==
    CompoundAssigned(root, path, left, right, addResult,
                     assignValue(Nothing, getAslStateOutput(addResult.r), left.r.jsonPath,
                                 [at |-> path, role |-> "assign"], addResult.st))

\* the handler of the compound assignments, given the evaluated operands
CompoundKept(root, path, left, kept) ==
    [r |-> evalContext(NodeOf(root, path), Collected(left.r), kept.r),
     st |-> kept.st]

CompoundOp(root, path, left, right, op, origin) ==
    IF op \in {"??=", "||=", "&&="}
    THEN CompoundKept(root, path, left,
                      conditionState(NodeOf(root, path),
                                     KeepsVariable(op, left.r.jsonPath),
                                     left.r, right.r, left.r.jsonPath, origin, right.st))
    ELSE CompoundAdd(root, path, left, right,
                     IF op = "+="
                     THEN plus(left.r, getAslStateOutput(right.r), Nothing, origin,
                               right.st)
                     ELSE minus(left.r, getAslStateOutput(right.r), origin, right.st))

CompoundOf(root, path, left, right) ==
    IF Threw(right) THEN Abort(right) ELSE
    CompoundOp(root, path, left, right, NodeAt(root, path).op,
               [at |-> path, role |-> "compound"])

CompoundOperands(root, path, left) ==
    IF Threw(left) THEN Abort(left) ELSE
    IF ~isJsonPath(left.r)
    THEN [r |-> Nothing,
          st |-> SynthError(left.st, "Expected assignment to target a variable")]
    ELSE CompoundOf(root, path, left, eval(root, Append(path, "right"), left.st))

\* x++ or x--, mutant: no copy of the old value is made, the output is the
\* path of the variable
IncrementPostfixOfVariable(node, output, mutateResult, origin) ==
    [r |-> WithOutput(
             joinSubStates(node,
               <<mutateResult.r,
                 assignValue(Nothing, getAslStateOutput(mutateResult.r), output.jsonPath,
                             [origin EXCEPT !.role = "increment.assign"],
                             mutateResult.st).r>>),
             output),
     st |-> mutateResult.st]

\* x++ or x--: the old value copied to a new heap variable, the new value
\* computed, the variable updated; the output is the copy
IncrementCopied(node, output, mutateResult, origin, assignResult) ==
    [r |-> WithOutput(
             joinSubStates(node,
               <<assignResult.r, mutateResult.r,
                 assignValue(Nothing, getAslStateOutput(mutateResult.r), output.jsonPath,
                             [origin EXCEPT !.role = "increment.assign"],
                             assignResult.st).r>>),
             getAslStateOutput(assignResult.r)),
     st |-> assignResult.st]

IncrementPostfix(node, output, mutateResult, origin) ==
    IncrementCopied(node, output, mutateResult, origin,
                    assignValue(Nothing, output, "",
                                [origin EXCEPT !.role = "increment.copy"],
                                mutateResult.st))

\* ++x or --x: the new value computed into a new heap variable, the variable
\* updated; the output is the new heap variable
IncrementPrefix(output, mutateResult, origin) ==
    [r |-> WithOutput(
             joinSubStates(Nothing,
               <<mutateResult.r,
                 assignValue(Nothing, getAslStateOutput(mutateResult.r), output.jsonPath,
                             [origin EXCEPT !.role = "increment.assign"],
                             mutateResult.st).r>>),
             getAslStateOutput(mutateResult.r)),
     st |-> mutateResult.st]

\* the handler of ++ and --, given the evaluated operand
IncrementHandled(root, path, operand, handled) ==
    [r |-> evalContext(NodeOf(root, Append(path, "expr")), Collected(operand.r),
                       handled.r),
     st |-> handled.st]

IncrementMutated(root, path, operand, output, mutateResult, origin) ==
    IncrementHandled(root, path, operand,
                     IF NodeAt(root, path).kind = "UnaryExpr"
                     THEN IncrementPrefix(output, mutateResult, origin)
                     ELSE IncrementPostfix(NodeOf(root, path), output, mutateResult,
                                           origin))

IncrementOperand(root, path, operand, output, origin) ==
    IF ~isJsonPath(output)
    THEN [r |-> Nothing,
          st |-> SynthError(operand.st, "Expected assignment to target a variable")]
    ELSE IncrementMutated(root, path, operand, output,
           assignToHeap(
             intrinsicMathAdd(output,
                              Literal(JNum(IF NodeAt(root, path).op = "++"
                                           THEN 1 ELSE 0 - 1))),
             [origin EXCEPT !.role = "increment.mutate"], operand.st),
           origin)

IncrementOf(root, path, operand) ==
    IF Threw(operand) THEN Abort(operand) ELSE
    IncrementOperand(root, path, operand, getAslStateOutput(operand.r),
                     [at |-> path, role |-> "increment"])

\* eval(expr), expr being the node at path
eval(root, path, st) ==
    LET expr == NodeAt(root, path)
        here == NodeOf(root, path)
        origin == [at |-> path, role |-> "expr"]
    IN CASE expr.kind = "NullLiteralExpr" ->
              [r |-> [jsonPath |-> ContextNull], st |-> st]
         [] expr.kind = "BooleanLiteralExpr" ->
              [r |-> Literal(JBool(expr.value)), st |-> st]
         [] expr.kind = "NumberLiteralExpr" ->
              [r |-> Literal(JNum(expr.value)), st |-> st]
         [] expr.kind = "StringLiteralExpr" ->
              [r |-> Literal(JStr(expr.value)), st |-> st]
         [] expr.kind = "CallExpr" /\ Has(expr, "integration") ->
              Integrated(IntegrationStates(root, path, st), throw(root, path))
         [] expr.kind = "Identifier" ->
              LET n == getIdentifierName(expr, st)
              IN [r |-> [jsonPath |-> "$." \o n.name], st |-> n.st]
         [] expr.kind = "BinaryExpr" /\ expr.op = "=" ->
              IF expr.left.kind # "Identifier"
              THEN [r |-> Nothing,
                    st |-> SynthError(st, "Expected left side of assignment to be a variable.")]
              ELSE LET right == eval(root, Append(path, "right"), st)
                       left == eval(root, Append(path, "left"), right.st)
                       rightOutput == getAslStateOutput(right.r)
                       assign == assignValue(here, rightOutput, left.r.jsonPath,
                                             [origin EXCEPT !.role = "assign"], left.st)
                   IN [r |-> evalContext(here, Collected(right.r) \o Collected(left.r),
                                         WithOutput(assign.r, rightOutput)),
                       st |-> assign.st]
         [] expr.kind = "BinaryExpr" /\ expr.op \in {"&&", "||", "??"} ->
              LET left == eval(root, Append(path, "left"), st)
                  leftOutput == getAslStateOutput(left.r)
                  right == eval(root, Append(path, "right"), left.st)
                  inner ==
                    IF isLiteralValue(leftOutput)
                    THEN IF isLiteralValue(right.r)
                         THEN [r |-> Literal(LogicalLiteral(expr.op, leftOutput.value,
                                                            right.r.value)),
                               st |-> right.st]
                         ELSE [r |-> IF KeepsLeft(expr.op, leftOutput.value)
                                     THEN leftOutput ELSE right.r,
                               st |-> right.st]
                    ELSE IF isConditionOutput(right.r) /\ isConditionOutput(leftOutput)
                    THEN [r |-> [condition |->
                                   CASE expr.op = "&&" ->
                                          and(<<leftOutput.condition, right.r.condition>>)
                                     [] expr.op = "||" ->
                                          or(<<leftOutput.condition, right.r.condition>>)
                                     [] OTHER -> leftOutput.condition],
                          st |-> right.st]
                    ELSE IF expr.op = "??"
                    THEN IF isConditionOutput(leftOutput)
                         THEN [r |-> leftOutput, st |-> right.st]
                         ELSE conditionState(here, isPresentAndNotNull(leftOutput.jsonPath),
                                             leftOutput, right.r, "", origin, right.st)
                    ELSE conditionState(
                           here,
                           IF isConditionOutput(leftOutput)
                           THEN IF expr.op = "&&" THEN not(leftOutput.condition)
                                ELSE leftOutput.condition
                           ELSE IF expr.op = "&&" THEN not(isTruthy(leftOutput.jsonPath))
                                ELSE isTruthy(leftOutput.jsonPath),
                           leftOutput, right.r, "", origin, right.st)
              IN [r |-> evalContext(NodeOf(root, Append(path, "left")),
                                    Collected(left.r), inner.r),
                  st |-> inner.st]
         [] expr.kind = "BinaryExpr" /\ expr.op = "-" ->
              MinusOperands(root, path, eval(root, Append(path, "left"), st))
         [] expr.kind = "BinaryExpr" /\ expr.op \in {"??=", "||=", "&&=", "+=", "-="} ->
              IF expr.left.kind # "Identifier"
              THEN [r |-> Nothing,
                    st |-> SynthError(st, "Expected left side of assignment to be a variable.")]
              ELSE CompoundOperands(root, path, eval(root, Append(path, "left"), st))
         [] expr.kind = "ElementAccessExpr" -> ElementAccess(root, path, st)
         [] expr.kind = "CallExpr" /\ Has(expr, "separator") /\ expr.method = "join" ->
              ArrayJoin(root, path, st)
         [] expr.kind = "CallExpr" /\ Has(expr, "callback")
               /\ expr.method \in {"map", "filter", "forEach"} ->
              ArrayMethod(root, path, st)
         [] expr.kind = "ObjectLiteralExpr" ->
              ObjectLiteral(root, path,
                            ObjectProperties(root, path, 1,
                                             [outputs |-> <<>>, states |-> <<>>, st |-> st]))
         [] expr.kind = "BinaryExpr" /\ expr.op = "+" ->
              PlusOperands(root, path, eval(root, Append(path, "left"), st))
         [] expr.kind \in {"UnaryExpr", "PostfixUnaryExpr"} /\ expr.op \in {"++", "--"} ->
              IF expr.expr.kind # "Identifier"
              THEN [r |-> Nothing,
                    st |-> SynthError(st, "Expected left side of assignment to be a variable.")]
              ELSE IncrementOf(root, path, eval(root, Append(path, "expr"), st))
         [] expr.kind = "UnaryExpr" /\ expr.op = "+" ->
              evalToNumber(root, Append(path, "expr"), st)
         [] OTHER ->
              [r |-> Nothing, st |-> SynthError(st, "Unsupported_Feature")]

(***************************************************************************)
(* ASL.evalStmt: the lowering of a statement to a graph of states          *)
(***************************************************************************)

\* the template of the return states of the function body
FunctionReturnPass == [End |-> TRUE, ResultPath |-> "$"]

\* a Pass state that does nothing
EmptyPass(next, origin) == [Type |-> "Pass", Next |-> next, origin |-> origin]

\* a Pass state that does nothing and keeps no result
VoidPass(next, origin) ==
    [Type |-> "Pass", ResultPath |-> NoResultPath, Next |-> next, origin |-> origin]

\* the value of a literal expression
LiteralJson(expr) ==
    CASE expr.kind = "NullLiteralExpr" -> JNull
      [] expr.kind = "BooleanLiteralExpr" -> JBool(expr.value)
      [] expr.kind = "NumberLiteralExpr" -> JNum(expr.value)
      [] OTHER -> JStr(expr.value)

\* the states evalExprBase starts from: the states of the expression
ExprStates(result) == IF isStateOrSubState(result) THEN <<result>> ELSE <<>>

\* zipArray(arrayJsonPath, formatIndex): the Map state that pairs each item
\* of the array with its index
zipArray(arrayJsonPath, st) ==
    LET iterator == aslGraphToStates(
                      [Type |-> "Pass", ResultPath |-> "$", Next |-> DeferNext,
                       origin |-> [at |-> <<"synthetic">>, role |-> "iterator"]],
                      "", st.stateNames)
    IN [r |-> [Type |-> "Map",
               ItemsPath |-> arrayJsonPath,
               Parameters |-> <<[name |-> "index.$",
                                 value |-> "States.Format('{}', $$.Map.Item.Index)"],
                                [name |-> "item.$", value |-> "$$.Map.Item.Value"]>>,
               Iterator |-> iterator.definition],
        st |-> [st EXCEPT !.stateNames = iterator.names]]

\* evalDecl(decl, initialValue): the assignment of the value to the variable
evalDecl(root, path, initialValue, st) ==
    LET declaration == NodeAt(root, path)
        n == getIdentifierName(declaration, st)
    IN assignValue(NodeOf(root, path), initialValue, "$." \o n.name,
                   [at |-> path, role |-> "declare"], n.st)

\* the if statements of the chain if ... else if ... that starts at path
RECURSIVE IfChain(_, _)
IfChain(root, path) ==
    LET else == NodeAt(root, path).else
    IN IF IsNode(else) /\ else.kind = "IfStmt"
       THEN <<path>> \o IfChain(root, Append(path, "else"))
       ELSE <<path>>

\* the local label of the i-th if statement of a chain, counted from 0
IfLabel(i) == IF i = 0 THEN "if" ELSE "if_" \o ToString(i)

\* mutant: every throw statement ends the machine
ThrowStateAlwaysFail(errorName, causeJson, throwTransition, origin) ==
    [Type |-> "Fail", Error |-> errorName, Cause |-> JsonStringify(causeJson),
     origin |-> origin]

\* the state of a throw statement: a Fail when the error ends the machine,
\* a Pass that carries the cause to the handler otherwise
ThrowState(errorName, causeJson, throwTransition, origin) ==
    IF IsNothing(throwTransition)
    THEN [Type |-> "Fail", Error |-> errorName, Cause |-> JsonStringify(causeJson),
          origin |-> origin]
    ELSE throwTransition @@ [Type |-> "Pass", Result |-> causeJson, origin |-> origin]

\* the states at the end of a finally block that throw again the error the
\* catch clause raised
ReThrow(errVariable, throwTarget, origin) ==
    [startState |-> "exit",
     states |-> <<
        Entry("exit",
              [Type |-> "Choice",
               Choices |-> <<Choice(isPresent(errVariable), "throw")>>,
               Default |-> DeferNext,
               origin |-> [origin EXCEPT !.role = "finally.exit"]]),
        Entry("throw",
              IF ~IsNothing(throwTarget)
              THEN throwTarget @@ [Type |-> "Pass", InputPath |-> errVariable,
                                   origin |-> [origin EXCEPT !.role = "finally.throw"]]
              ELSE [Type |-> "Fail", Error |-> "ReThrowFromFinally",
                    Cause |-> "an error was re-thrown from a finally block which is unsupported by Step Functions",
                    origin |-> [origin EXCEPT !.role = "finally.throw"]])>>]

\* mutant: a loop defines no label of its own
LoopLabelsOfNone(continueTo, breakTo, origin) == <<>>

\* the states of a loop that break and continue are sent to
LoopLabels(continueTo, breakTo, origin) ==
    <<Entry(ContinueNext,
            [Type |-> "Pass", Next |-> continueTo, node |-> Synthetic(ContinueStmt),
             origin |-> [origin EXCEPT !.role = ContinueNext]]),
      Entry(BreakNext,
            [Type |-> "Pass", Next |-> breakTo, node |-> Synthetic(BreakStmt),
             origin |-> [origin EXCEPT !.role = BreakNext]])>>

RECURSIVE evalStmt(_, _, _, _)

(***************************************************************************)
(* Element access: elementAccessExprToJsonPath                             *)
(***************************************************************************)

\* element.lookup() is a variable declaration: the identifier names no
\* parameter of the function
isVariableDecl(root, identifier) ==
    \A i \in 1..Len(root.parameters) : root.parameters[i].decl # identifier.decl

\* access.findParent: a for-in statement around the node at path whose
\* initializer is the declaration of the identifier
InForInOf(root, path, identifier) ==
    \E i \in 1..Len(path) :
        LET parent == NodeAt(root, SubSeq(path, 1, Len(path) - i))
        IN /\ parent.kind = "ForInStmt"
           /\ parent.initializer.kind \in {"Identifier", "VariableDecl"}
           /\ parent.initializer.decl = identifier.decl

\* disambiguateArrayObject(reference, whenArray, whenObject, resultPath,
\* true): the states that tell an array from an object when they run
disambiguateArrayObject(reference, whenArray, whenObject, resultPath, origin) ==
    LET as(role) == [origin EXCEPT !.role = "access." \o role]
    IN [startState |-> "check",
        states |-> <<
          Entry("check",
                [Type |-> "Choice",
                 Choices |-> <<Choice(isPresent(reference.jsonPath \o "[0]"), "array")>>,
                 Default |-> "stringify",
                 origin |-> as("check")]),
          Entry("array", whenArray),
          Entry("object", whenObject),
          Entry("stringify",
                assignJsonPathOrIntrinsic(intrinsicJsonToString(reference), resultPath,
                                          "str", "checkString", as("stringify"))),
          Entry("checkString",
                [Type |-> "Choice",
                 Choices |-> <<Choice(stringEquals(resultPath \o ".str", "[]"), "array")>>,
                 Default |-> "object",
                 origin |-> as("checkString")])>>,
        output |-> [jsonPath |-> resultPath]]

\* the state that runs when the value accessed is an object
InvalidAccess(root, path, origin) ==
    IF IsNothing(throw(root, path))
    THEN [Type |-> "Fail", Error |-> "Functionless.InvalidAccess",
          Cause |-> "Reference element access is not valid for objects.",
          origin |-> [origin EXCEPT !.role = "access.invalid"]]
    ELSE [Type |-> "Pass",
          Parameters |-> <<[name |-> "error", value |-> JStr("Functionless.InvalidAccess")],
                           [name |-> "cause",
                            value |-> JStr("Reference element access is not valid for objects.")]>>,
          origin |-> [origin EXCEPT !.role = "access.invalid"]] @@ throw(root, path)

\* the access of the array by an element that is a path
ElementOfPath(root, path, arrayOutput, elementOutput, accessArray, origin) ==
    [r |-> disambiguateArrayObject(arrayOutput, accessArray.r,
                                   InvalidAccess(root, path, origin),
                                   getAslStateOutput(accessArray.r).jsonPath, origin),
     st |-> accessArray.st]

\* the access of the array by the element, both evaluated
ElementOperands(root, path, element, array) ==
    IF Threw(array) THEN Abort(array) ELSE
    LET elementOutput == getAslStateOutput(element.r)
        arrayOutput == getAslStateOutput(array.r)
        origin == [at |-> path, role |-> "access"]
        accessed ==
          IF isLiteralValue(elementOutput)
          THEN IF elementOutput.value # NaN /\ elementOutput.value.t \in {"string", "number"}
               THEN [r |-> [jsonPath |-> arrayOutput.jsonPath \o "["
                                         \o (IF elementOutput.value.t = "number"
                                             THEN ToString(elementOutput.value.v)
                                             ELSE "'" \o elementOutput.value.v \o "'")
                                         \o "]"],
                     st |-> array.st]
               ELSE [r |-> Nothing,
                     st |-> SynthError(array.st,
                              "Collection element accessor must be a constant string or number")]
          ELSE ElementOfPath(root, path, arrayOutput, elementOutput,
                             assignToHeap(intrinsicArrayGetItem(arrayOutput, elementOutput),
                                          [origin EXCEPT !.role = "access.array"], array.st),
                             origin)
    IN IF Threw(accessed) THEN Abort(accessed)
       ELSE [r |-> evalContext(NodeOf(root, Append(path, "element")),
                               Collected(element.r) \o Collected(array.r), accessed.r),
             st |-> accessed.st]

ElementEvaluated(root, path, element) ==
    IF Threw(element) THEN Abort(element) ELSE
    ElementOperands(root, path, element, eval(root, Append(path, "expr"), element.st))

\* elementAccessExprToJsonPath(access): the item stashed by the for-in
\* statement whose variable is the element, or the access of the array
ElementAccess(root, path, st) ==
    LET access == NodeAt(root, path)
    IN IF /\ access.element.kind = "Identifier"
          /\ isVariableDecl(root, access.element)
          /\ InForInOf(root, path, access.element)
       THEN [r |-> [jsonPath |-> "$.0__" \o getIdentifierName(access.element, st).name],
             st |-> getIdentifierName(access.element, st).st]
       ELSE ElementEvaluated(root, path, eval(root, Append(path, "element"), st))

(***************************************************************************)
(* join of an array: joinToStateOutput                                     *)
(***************************************************************************)

\* the Map state that makes each item of the array a string
JoinInitArray(valueJsonPath, arrayPath, formatState, origin, st) ==
    LET assign == assignValue(Nothing, getAslStateOutput(formatState), "$",
                              [origin EXCEPT !.role = "join.assign"], st)
        iterator == aslGraphToStates(
                      [startState |-> "format",
                       states |-> <<Entry("format",
                                          updateDeferredNextStates([Next |-> "assign"],
                                                                   formatState)),
                                    Entry("assign", assign.r)>>],
                      "", assign.st.stateNames)
    IN [r |-> [Type |-> "Map",
               ItemsPath |-> valueJsonPath,
               Parameters |-> <<[name |-> "item.$", value |-> "$$.Map.Item.Value"]>>,
               Iterator |-> iterator.definition,
               ResultPath |-> arrayPath,
               Next |-> "hasNext",
               origin |-> [origin EXCEPT !.role = "join.initArray"]],
        st |-> [assign.st EXCEPT !.stateNames = iterator.names]]

\* the hasNext state: the first item, the empty array, a later item, or done
JoinHasNext(arrayPath, resultVariable, origin) ==
    [Type |-> "Choice",
     Choices |-> <<Choice(and(<<isPresent(arrayPath \o "[0]"),
                                not(isPresent(resultVariable))>>), "initValue"),
                   Choice(and(<<isNotPresent(arrayPath \o "[0]"),
                                isNotPresent(resultVariable)>>), "returnEmpty"),
                   Choice(isPresent(arrayPath \o "[0]"), "append")>>,
     Default |-> "done",
     origin |-> [origin EXCEPT !.role = "join.hasNext"]]

\* the append state: the accumulator, the separator and the head
JoinAppend(separator, arrayPath, resultVariable, origin) ==
    assignJsonPathOrIntrinsic(
      IF isJsonPath(separator)
      THEN intrinsicFormat("{}{}{}", <<[jsonPath |-> resultVariable \o ".string"],
                                       separator,
                                       [jsonPath |-> arrayPath \o "[0]"]>>)
      ELSE intrinsicFormat("{}" \o separator.value.v \o "{}",
                           <<[jsonPath |-> resultVariable \o ".string"],
                             [jsonPath |-> arrayPath \o "[0]"]>>),
      resultVariable, "string", "tail", [origin EXCEPT !.role = "join.append"])

\* the sub-state of joinToStateOutput
JoinStates(valueJsonPath, separator, arrayPath, resultVariable, initArray, origin) ==
    LET as(role) == [origin EXCEPT !.role = "join." \o role]
    IN [r |-> [startState |-> "initArray",
               states |->
                 <<Entry("initArray", initArray.r),
                   Entry("hasNext", JoinHasNext(arrayPath, resultVariable, origin)),
                   Entry("initValue",
                         [Type |-> "Pass", InputPath |-> arrayPath \o "[0]",
                          ResultPath |-> resultVariable \o ".string", Next |-> "tail",
                          origin |-> as("initValue")]),
                   Entry("append", JoinAppend(separator, arrayPath, resultVariable, origin)),
                   Entry("tail",
                         [Type |-> "Pass", InputPath |-> arrayPath \o "[1:]",
                          ResultPath |-> arrayPath, Next |-> "hasNext",
                          origin |-> as("tail")]),
                   Entry("returnEmpty",
                         [Type |-> "Pass", Result |-> JStr(""),
                          ResultPath |-> resultVariable \o ".string", Next |-> DeferNext,
                          origin |-> as("returnEmpty")]),
                   Entry("done", EmptyPass(DeferNext, as("done")))>>,
               output |-> [jsonPath |-> resultVariable \o ".string"]],
        st |-> initArray.st]

JoinFormatted(valueJsonPath, separator, arrayPath, resultVariable, formatState, origin) ==
    JoinStates(valueJsonPath, separator, arrayPath.path, resultVariable.path,
               JoinInitArray(valueJsonPath, arrayPath.path, formatState.r, origin,
                             formatState.st),
               origin)

JoinHeap(valueJsonPath, separator, arrayPath, resultVariable, origin) ==
    JoinFormatted(valueJsonPath, separator, arrayPath, resultVariable,
                  jsonPathValueToString([jsonPath |-> "$.item"], "", origin,
                                        resultVariable.st),
                  origin)

\* the join of the array at the path with the separator
JoinOf(valueJsonPath, separator, origin, st) ==
    JoinHeap(valueJsonPath, separator, newHeapVariable(st),
             newHeapVariable(newHeapVariable(st).st), origin)

\* joinToStateOutput: the array and the separator evaluated and tested
JoinOperands(root, path, value, separator) ==
    IF Threw(value) THEN Abort(value) ELSE
    IF Threw(separator) THEN Abort(separator) ELSE
    LET valueOutput == getAslStateOutput(value.r)
        separatorOutput == IF IsNothing(separator.r) THEN Literal(JStr(","))
                           ELSE getAslStateOutput(separator.r)
        joined == JoinOf(valueOutput.jsonPath, separatorOutput,
                         [at |-> path, role |-> "join"], separator.st)
    IN IF isConditionOutput(valueOutput) \/ isLiteralValue(valueOutput)
       THEN [r |-> Nothing,
             st |-> SynthError(separator.st,
                      "Expected join to be performed on a variable or array constant")]
       ELSE IF isLiteralValue(separatorOutput) /\ separatorOutput.value.t # "string"
       THEN [r |-> Nothing,
             st |-> SynthError(separator.st,
                      "Expected join separator to be missing, undefined, a string, or a variable")]
       ELSE [r |-> evalContext(NodeOf(root, path),
                               Collected(value.r) \o Collected(separator.r), joined.r),
             st |-> joined.st]

JoinSeparator(root, path, value) ==
    IF Threw(value) THEN Abort(value) ELSE
    JoinOperands(root, path, value,
                 IF IsNode(NodeAt(root, path).separator)
                 THEN eval(root, Append(path, "separator"), value.st)
                 ELSE [r |-> Nothing, st |-> value.st])

ArrayJoin(root, path, st) == JoinSeparator(root, path, eval(root, Append(path, "expr"), st))

(***************************************************************************)
(* map, filter and forEach of an array: iterateArrayMethod                 *)
(***************************************************************************)

\* the heap variables of iterateArrayMethod: the working space, and the
\* place of the result of the callback, which is the head of the working
\* array when overwriteIterationItemResult
IterateSpace(overwrite, st) ==
    LET space == newHeapVariable(st)
        result == IF overwrite
                  THEN [path |-> space.path \o ".arr[0]", st |-> space.st]
                  ELSE newHeapVariable(space.st)
    IN [workingSpace |-> space.path, functionResult |-> result.path, st |-> result.st]

\* evalDecl(parameter, { jsonPath }): the i-th parameter of the callback at
\* cb takes the value at the path
ParameterState(root, cb, i, jsonPath, st) ==
    LET param == NodeAt(root, cb).parameters[i]
        at == cb \o <<"parameters", ToString(i)>>
        n == getIdentifierName(param, st)
    IN assignValue([name |-> toStateName(param), at |-> at], [jsonPath |-> jsonPath],
                   "$." \o n.name, [at |-> at, role |-> "declare"], n.st)

\* assignParameters: item, index and array, those the callback declares
ParametersAssigned(root, cb, item, index, array) ==
    IF Threw(array) THEN Abort(array) ELSE
    [r |-> joinSubStates(NodeOf(root, cb), <<item.r, index.r, array.r>>),
     st |-> array.st]

ParametersIndexed(root, cb, arrayJsonPath, item, index) ==
    IF Threw(index) THEN Abort(index) ELSE
    ParametersAssigned(root, cb, item, index,
                       IF Len(NodeAt(root, cb).parameters) >= 3
                       THEN ParameterState(root, cb, 3, arrayJsonPath, index.st)
                       ELSE [r |-> Nothing, st |-> index.st])

ParametersItem(root, cb, head, arrayJsonPath, item) ==
    IF Threw(item) THEN Abort(item) ELSE
    ParametersIndexed(root, cb, arrayJsonPath, item,
                      IF Len(NodeAt(root, cb).parameters) >= 2
                      THEN ParameterState(root, cb, 2, head \o ".index", item.st)
                      ELSE [r |-> Nothing, st |-> item.st])

IterateParameters(root, cb, head, arrayJsonPath, st) ==
    ParametersItem(root, cb, head, arrayJsonPath,
                   IF Len(NodeAt(root, cb).parameters) >= 1
                   THEN ParameterState(root, cb, 1,
                                       IF Len(NodeAt(root, cb).parameters) >= 2
                                       THEN head \o ".item" ELSE head, st)
                   ELSE [r |-> Nothing, st |-> st])

\* arrStr = `${arrStr},${JSON.stringify(value)}`, and the working array
\* tailed, in one Pass over the working space
AppendAndTail(space, valuePath, origin) ==
    [Type |-> "Pass",
     Parameters |-> <<[name |-> "arr.$", value |-> space \o ".arr[1:]"],
                      LET format == intrinsicFormat("{},{}",
                                      <<[jsonPath |-> space \o ".arrStr"],
                                        intrinsicJsonToString([jsonPath |-> valuePath])>>)
                      IN [name |-> "arrStr.$", value |-> RenderIntrinsic(format),
                          intrinsic |-> format]>>,
     ResultPath |-> space,
     Next |-> DeferNext,
     origin |-> origin]

\* the end states of map and filter: the array string closed and parsed,
\* the leading null dropped
ParseArrStr(space, origin) ==
    [startState |-> "format",
     states |-> <<
       Entry("format",
             assignJsonPathOrIntrinsic(
               intrinsicStringToJson(
                 intrinsicFormat("{}]", <<[jsonPath |-> space \o ".arrStr"]>>)),
               space, "result", "set", [origin EXCEPT !.role = "iterate.format"])),
       Entry("set",
             [Type |-> "Pass", InputPath |-> space \o ".result[1:]",
              ResultPath |-> space, Next |-> DeferNext,
              origin |-> [origin EXCEPT !.role = "iterate.set"]])>>]

\* handleIterationResult of the method, Nothing when it has none
HandleResult(method, space, functionResult, origin) ==
    CASE method = "map" ->
           AppendAndTail(space.workingSpace, space.functionResult,
                         [origin EXCEPT !.role = "iterate.handleResult"])
      [] method = "filter" ->
           [startState |-> "checkPredicate",
            states |-> <<
              Entry("checkPredicate",
                    [Type |-> "Choice",
                     Choices |-> <<Choice(isTruthy(space.functionResult), "predicateTrue")>>,
                     Default |-> "tail",
                     origin |-> [origin EXCEPT !.role = "iterate.checkPredicate"]]),
              Entry("predicateTrue",
                    AppendAndTail(space.workingSpace, functionResult,
                                  [origin EXCEPT !.role = "iterate.predicateTrue"]))>>]
      [] OTHER -> Nothing

\* getEndState of the method
EndState(method, space, origin) ==
    IF method = "forEach"
    THEN [Type |-> "Pass", Result |-> JStr(ContextNull), ResultPath |-> space,
          Next |-> DeferNext, origin |-> [origin EXCEPT !.role = "iterate.end"]]
    ELSE ParseArrStr(space, origin)

\* the tail state, mutant: the working array is left as it is
TailStateKept(space, origin) ==
    [Type |-> "Pass", InputPath |-> space \o ".arr", ResultPath |-> space \o ".arr",
     Next |-> "check", origin |-> [origin EXCEPT !.role = "iterate.tail"]]

\* the tail state: the working array without its head
TailState(space, origin) ==
    [Type |-> "Pass", InputPath |-> space \o ".arr[1:]", ResultPath |-> space \o ".arr",
     Next |-> "check", origin |-> [origin EXCEPT !.role = "iterate.tail"]]

\* the init state: the array copied to the working space with the initial
\* values; zipped with the indexes when the callback takes the index
InitState(method, hasIndex, arrayJsonPath, space, zip, origin) ==
    LET initValues == IF method = "forEach" THEN <<>>
                      ELSE <<[name |-> "arrStr", value |-> JStr("[null")]>>
    IN IF hasIndex
       THEN [ResultSelector |-> <<[name |-> "arr.$", value |-> "$"]>> \o initValues,
             ResultPath |-> space, Next |-> "check",
             origin |-> [origin EXCEPT !.role = "iterate.init"]] @@ zip.r
       ELSE [Type |-> "Pass",
             Parameters |-> <<[name |-> "arr.$", value |-> arrayJsonPath]>> \o initValues,
             ResultPath |-> space, Next |-> "check",
             origin |-> [origin EXCEPT !.role = "iterate.init"]]

\* the sub-state of iterateArrayMethod
IterateStates(root, cb, method, arrayJsonPath, space, params, body, zip, origin, handleResult) ==
    LET hasIndex == Len(NodeAt(root, cb).parameters) >= 2
        head == space.workingSpace \o ".arr[0]"
        after == IF IsNothing(handleResult) THEN "tail" ELSE "handleResult"
        as(role) == [origin EXCEPT !.role = "iterate." \o role]
    IN [r |-> [startState |-> "init",
               states |->
                 <<Entry("init", InitState(method, hasIndex, arrayJsonPath,
                                           space.workingSpace, zip, origin)),
                   Entry("check",
                         [Type |-> "Choice",
                          Choices |-> <<Choice(isPresent(head), "assign")>>,
                          Default |-> "end",
                          origin |-> as("check")]),
                   Entry(GeneratedName(cb), EmptyPass(after, as("return"))),
                   Entry("assign",
                         updateDeferredNextStates([Next |-> "body"],
                           IF IsNothing(params.r) THEN EmptyPass(DeferNext, as("assign"))
                           ELSE params.r)),
                   Entry("body",
                         updateDeferredNextStates([Next |-> after],
                           IF IsNothing(body.r) THEN EmptyPass(DeferNext, as("body"))
                           ELSE body.r))>>
                 \o (IF IsNothing(handleResult) THEN <<>>
                     ELSE <<Entry("handleResult",
                                  updateDeferredNextStates([Next |-> "check"],
                                                           handleResult))>>)
                 \o <<Entry("tail", TailState(space.workingSpace, origin)),
                      Entry("end", EndState(method, space.workingSpace, origin))>>,
               output |-> [jsonPath |-> space.workingSpace]],
        st |-> IF hasIndex THEN zip.st ELSE body.st]

IterateBody(root, cb, method, arrayJsonPath, space, params, body) ==
    IF Threw(body) THEN Abort(body) ELSE
    IterateStates(root, cb, method, arrayJsonPath, space, params, body,
                  IF Len(NodeAt(root, cb).parameters) >= 2
                  THEN zipArray(arrayJsonPath, body.st) ELSE Nothing,
                  [at |-> Parent(cb), role |-> "iterate"],
                  HandleResult(method, space,
                               IF Len(NodeAt(root, cb).parameters) >= 2
                               THEN space.workingSpace \o ".arr[0].item"
                               ELSE space.workingSpace \o ".arr[0]",
                               [at |-> Parent(cb), role |-> "iterate"]))

IterateParams(root, cb, method, arrayJsonPath, space, params) ==
    IterateBody(root, cb, method, arrayJsonPath, space, params,
                evalStmt(root, Append(cb, "body"),
                         [ResultPath |-> space.functionResult, Next |-> GeneratedName(cb)],
                         params.st))

IterateSpaced(root, cb, method, arrayJsonPath, space) ==
    IterateParams(root, cb, method, arrayJsonPath, space,
                  IterateParameters(root, cb, space.workingSpace \o ".arr[0]",
                                    arrayJsonPath, space.st))

\* iterateArrayMethod(func, arrayJsonPath, overwriteIterationItemResult,
\* initValues, handleIterationResult, getEndState), for the method
iterateArrayMethod(root, cb, method, arrayJsonPath, st) ==
    IterateSpaced(root, cb, method, arrayJsonPath,
                  IterateSpace(method # "filter", st))

RECURSIVE toFilterCondition(_, _)
\* toFilterCondition(expr): the text of the expression in a filter of
\* JSONPath, "" (undefined) when it has none
toFilterCondition(predicate, expr) ==
    CASE expr.kind = "StringLiteralExpr" -> "'" \o expr.value \o "'"
      [] expr.kind \in {"NullLiteralExpr", "BooleanLiteralExpr", "NumberLiteralExpr"} ->
           toStateName(expr)
      [] expr.kind = "BinaryExpr" ->
           LET left == toFilterCondition(predicate, expr.left)
               right == toFilterCondition(predicate, expr.right)
           IN IF left = "" \/ right = "" THEN ""
              ELSE left \o (CASE expr.op = "===" -> "=="
                              [] expr.op = "!==" -> "!="
                              [] OTHER -> expr.op) \o right
      [] expr.kind = "UnaryExpr" ->
           IF toFilterCondition(predicate, expr.expr) = "" THEN ""
           ELSE expr.op \o toFilterCondition(predicate, expr.expr)
      [] expr.kind = "Identifier" ->
           IF \E i \in 1..Len(predicate.parameters) : predicate.parameters[i].decl = expr.decl
           THEN IF predicate.parameters[1].decl = expr.decl THEN "@" ELSE ""
           ELSE "$." \o expr.name
      [] OTHER -> ""

\* filterToJsonPath(valueJsonPath, predicate): the array filtered by a
\* JSONPath expression, Nothing when the predicate is no single return of
\* an expression that has one
filterToJsonPath(valueJsonPath, predicate) ==
    IF \/ Len(predicate.body.statements) # 1
       \/ predicate.body.statements[1].kind # "ReturnStmt"
    THEN Nothing
    ELSE IF toFilterCondition(predicate, predicate.body.statements[1].expr) = ""
    THEN Nothing
    ELSE [jsonPath |-> valueJsonPath \o "[?("
                       \o toFilterCondition(predicate, predicate.body.statements[1].expr)
                       \o ")]"]

\* the method lowered for the array at the path
ArrayIterated(root, path, array, iterated) ==
    IF Threw(iterated) THEN Abort(iterated) ELSE
    [r |-> evalContext(NodeOf(root, Append(path, "expr")), array,
                       IF NodeAt(root, path).method = "filter"
                       THEN WithNode(iterated.r, NodeOf(root, path))
                       ELSE iterated.r),
     st |-> iterated.st]

ArrayFiltered(root, path, array, listOutput, st, filtered) ==
    IF ~IsNothing(filtered)
    THEN [r |-> evalContext(NodeOf(root, Append(path, "expr")), array, filtered),
          st |-> st]
    ELSE ArrayIterated(root, path, array,
                       iterateArrayMethod(root, Append(path, "callback"),
                                          NodeAt(root, path).method,
                                          listOutput.jsonPath, st))

ArrayMethodOn(root, path, array, listOutput, st) ==
    ArrayFiltered(root, path, array, listOutput, st,
                  IF NodeAt(root, path).method = "filter"
                  THEN filterToJsonPath(listOutput.jsonPath, NodeAt(root, path).callback)
                  ELSE Nothing)

\* evalExprToJsonPath(array, handler): the array made a path
ArrayNormalized(root, path, array, normalized) ==
    IF Threw(normalized) THEN Abort(normalized) ELSE
    ArrayMethodOn(root, path, Collected(array.r) \o Collected(normalized.r),
                  getAslStateOutput(normalized.r), normalized.st)

ArrayMethodOf(root, path, array) ==
    IF Threw(array) THEN Abort(array) ELSE
    ArrayNormalized(root, path, array,
                    IF isJsonPath(getAslStateOutput(array.r))
                    THEN [r |-> getAslStateOutput(array.r), st |-> array.st]
                    ELSE assignValue(NodeOf(root, Append(path, "expr")),
                                     getAslStateOutput(array.r), "",
                                     [at |-> path, role |-> "array"], array.st))

\* mapToStateOutput, filterToStateOutput, forEachToStateOutput
ArrayMethod(root, path, st) == ArrayMethodOf(root, path, eval(root, Append(path, "expr"), st))

\* this.evalExpr(expr, ...): eval(expr), for the expressions of a statement
evalExpr(root, path, st) == evalStmt(root, path, Nothing, st)
RECURSIVE evalStatements(_, _, _, _, _, _)
RECURSIVE evalIfs(_, _, _, _, _, _, _)

\* the graphs of the statements i.. of the block at path, each with the
\* statement as its node
evalStatements(root, path, i, returnPass, st, acc) ==
    IF i > Len(NodeAt(root, path).statements) THEN [r |-> acc, st |-> st]
    ELSE LET s == Append(path, ToString(i))
             states == evalStmt(root, s, returnPass, st)
         IN IF Threw(states) THEN Abort(states)
            ELSE evalStatements(root, path, i + 1, returnPass, states.st,
                                Append(acc, IF IsNothing(states.r) THEN Nothing
                                            ELSE WithNode(states.r, NodeOf(root, s))))

\* the entries of the if statements i.. of the chain ifs
evalIfs(root, ifs, i, hasElse, returnPass, st, acc) ==
    IF i > Len(ifs) THEN [r |-> acc, st |-> st]
    ELSE LET next == IF i < Len(ifs) THEN IfLabel(i)
                     ELSE IF hasElse THEN "else" ELSE DeferNext
             when == Append(ifs[i], "when")
             origin == [at |-> ifs[i], role |-> "if"]
             Rest(condition, stmtStates) ==
               IF Threw(stmtStates) THEN Abort(stmtStates) ELSE
               evalIfs(root, ifs, i + 1, hasElse, returnPass, stmtStates.st,
                 Append(acc,
                   Entry(IfLabel(i - 1),
                     [startState |-> "condition",
                      states |-> <<
                        Entry("condition",
                              joinSubStates(NodeOf(root, when),
                                <<condition.r,
                                  [Type |-> "Choice",
                                   Choices |-> <<Choice(isTruthyOutput(
                                                          getAslStateOutput(condition.r)),
                                                        "body")>>,
                                   Default |-> next,
                                   origin |-> origin]>>)),
                        Entry("body",
                              IF IsNothing(stmtStates.r)
                              THEN EmptyPass(DeferNext, [origin EXCEPT !.role = "then"])
                              ELSE stmtStates.r)>>])))
             Then(condition) ==
               IF Threw(condition) THEN Abort(condition) ELSE
               Rest(condition,
                    evalStmt(root, Append(ifs[i], "then"), returnPass, condition.st))
         IN Then(evalExpr(root, when, st))

\* evalStmt(stmt, returnPass) for the statement at path: a loop.  The parts
\* are lowered in the order of the source, each from the compilation state
\* the one before left, and handed on to the operator that needs them
\* for (const v of expr) stmt and for (const v in expr) stmt
ForOfLoop(root, path, expr, inner, assignTempState, zip, name, declared) ==
    LET stmt == NodeAt(root, path)
        here == NodeOf(root, path)
        origin == [at |-> path, role |-> "loop"]
        exprPath == Append(path, "expr")
        tempArrayPath == assignTempState.r.output.jsonPath
        assignTemp ==
          IF stmt.kind = "ForOfStmt" THEN assignTempState.r
          ELSE joinSubStates(NodeOf(root, exprPath),
                 <<assignTempState.r,
                   [ResultPath |-> tempArrayPath, Next |-> DeferNext,
                    origin |-> [origin EXCEPT !.role = "zip"]] @@ zip.r>>)
        initializer ==
          IF stmt.kind = "ForOfStmt" THEN declared.r
          ELSE [startState |-> "assignIndex",
                node |-> NodeOf(root, Append(path, "initializer")),
                states |-> <<
                  Entry("assignIndex",
                        [Type |-> "Pass",
                         InputPath |-> tempArrayPath \o "[0].index",
                         ResultPath |-> "$." \o name.name,
                         Next |-> "assignValue",
                         origin |-> [origin EXCEPT !.role = "assignIndex"]]),
                  Entry("assignValue",
                        [Type |-> "Pass",
                         InputPath |-> tempArrayPath \o "[0].item",
                         ResultPath |-> "$.0__" \o name.name,
                         Next |-> DeferNext,
                         origin |-> [origin EXCEPT !.role = "assignValue"]])>>]
        loop ==
          [startState |-> "assignTemp",
           node |-> here,
           states |-> <<
             Entry("assignTemp",
                   updateDeferredNextStates([Next |-> "hasNext"], assignTemp)),
             Entry("hasNext",
                   [Type |-> "Choice",
                    Choices |-> <<Choice(isPresent(tempArrayPath \o "[0]"),
                                         "assign")>>,
                    Default |-> "exit",
                    origin |-> [origin EXCEPT !.role = "check"]]),
             Entry("assign",
                   updateDeferredNextStates([Next |-> "body"], initializer)),
             Entry("body",
                   updateDeferredNextStates([Next |-> "tail"],
                      IF IsNothing(inner.r)
                      THEN EmptyPass(DeferNext, [origin EXCEPT !.role = "body"])
                      ELSE inner.r)),
             Entry("tail",
                   [Type |-> "Pass",
                    InputPath |-> tempArrayPath \o "[1:]",
                    ResultPath |-> tempArrayPath,
                    Next |-> "hasNext",
                    origin |-> [origin EXCEPT !.role = "tail"]]),
             Entry("exit",
                   EmptyPass(DeferNext, [origin EXCEPT !.role = "exit"]))>>
             \o LoopLabels("tail", "exit", origin)]
    IN [r |-> joinSubStates(NodeOf(root, exprPath),
                            Append(ExprStates(expr.r), loop)),
        st |-> IF stmt.kind = "ForOfStmt" THEN declared.st ELSE name.st]
\* mutant: the loop variable is bound to the head of the iterated array, not
\* to the head of the copy the loop consumes
ForOfDeclareOfIterable(root, path, expr, inner, assignTempState, zip, afterTemp) ==
    ForOfLoop(root, path, expr, inner, assignTempState, zip,
              getIdentifierName(NodeAt(root, path).initializer, afterTemp),
              evalDecl(root, Append(path, "initializer"),
                       [jsonPath |-> getAslStateOutput(expr.r).jsonPath \o "[0]"],
                       afterTemp))

\* the loop variable is declared, bound to the head of the copy
ForOfDeclare(root, path, expr, inner, assignTempState, zip, afterTemp) ==
    ForOfLoop(root, path, expr, inner, assignTempState, zip,
              getIdentifierName(NodeAt(root, path).initializer, afterTemp),
              evalDecl(root, Append(path, "initializer"),
                       [jsonPath |-> assignTempState.r.output.jsonPath \o "[0]"],
                       afterTemp))

ForOfZipped(root, path, expr, inner, assignTempState, zip) ==
    ForOfDeclare(root, path, expr, inner, assignTempState, zip,
                 IF NodeAt(root, path).kind = "ForOfStmt"
                 THEN assignTempState.st ELSE zip.st)

ForOfTemp(root, path, expr, inner, assignTempState) ==
    IF Threw(assignTempState) THEN Abort(assignTempState) ELSE
    ForOfZipped(root, path, expr, inner, assignTempState,
                zipArray(assignTempState.r.output.jsonPath, assignTempState.st))

ForOfBody(root, path, expr, inner) ==
    IF Threw(inner) THEN Abort(inner) ELSE
    ForOfTemp(root, path, expr, inner,
              assignValue(Nothing, getAslStateOutput(expr.r), "",
                          [at |-> path, role |-> "assignTemp"], inner.st))

ForOfExpr(root, path, returnPass, expr) ==
    IF Threw(expr) THEN Abort(expr) ELSE
    ForOfBody(root, path, expr,
              evalStmt(root, Append(path, "stmt"), returnPass, expr.st))

\* for (initializer; condition; incrementor) stmt
ForLoop(root, path, body, initializer, condStates, increment) ==
    LET stmt == NodeAt(root, path)
        here == NodeOf(root, path)
        origin == [at |-> path, role |-> "loop"]
        conditionOutput == getAslStateOutput(condStates.r)
        check ==
          IF IsNode(stmt.condition)
          THEN joinSubStates(NodeOf(root, Append(path, "condition")),
                 <<condStates.r,
                   IF isJsonPath(conditionOutput)
                      \/ isConditionOutput(conditionOutput)
                   THEN [Type |-> "Choice",
                         Choices |-> <<Choice(
                            IF isConditionOutput(conditionOutput)
                            THEN conditionOutput.condition
                            ELSE isTruthy(conditionOutput.jsonPath),
                            "body")>>,
                         Default |-> "exit",
                         origin |-> [origin EXCEPT !.role = "check"]]
                   ELSE EmptyPass(IF JTruthy(conditionOutput.value)
                                  THEN "body" ELSE "exit",
                                  [origin EXCEPT !.role = "check"])>>)
          ELSE EmptyPass("body", [origin EXCEPT !.role = "check"])
        loop ==
          [startState |-> "check",
           states |-> <<
             Entry("check", check),
             Entry("body",
                   updateDeferredNextStates([Next |-> "increment"],
                      IF IsNothing(body.r)
                      THEN EmptyPass(DeferNext, [origin EXCEPT !.role = "body"])
                      ELSE body.r)),
             Entry("increment",
                   updateDeferredNextStates([Next |-> "check"],
                      IF isStateOrSubState(increment.r) THEN increment.r
                      ELSE EmptyPass(DeferNext,
                                     [origin EXCEPT !.role = "increment"]))),
             Entry("exit",
                   EmptyPass(DeferNext, [origin EXCEPT !.role = "exit"]))>>
             \o LoopLabels("check", "exit", origin)]
    IN [r |-> joinSubStates(here,
                Append(Collected(initializer.r), joinSubStates(here, <<loop>>))),
        st |-> increment.st]
ForCondition(root, path, body, initializer, condStates) ==
    IF Threw(condStates) THEN Abort(condStates) ELSE
    ForLoop(root, path, body, initializer, condStates,
            IF IsNode(NodeAt(root, path).incrementor)
            THEN evalExpr(root, Append(path, "incrementor"), condStates.st)
            ELSE [r |-> Nothing, st |-> condStates.st])

ForInitializer(root, path, body, initializer) ==
    IF Threw(initializer) THEN Abort(initializer) ELSE
    ForCondition(root, path, body, initializer,
                 IF IsNode(NodeAt(root, path).condition)
                 THEN evalExpr(root, Append(path, "condition"), initializer.st)
                 ELSE [r |-> Nothing, st |-> initializer.st])

ForBody(root, path, body) ==
    IF Threw(body) THEN Abort(body) ELSE
    ForInitializer(root, path, body,
                   IF IsNode(NodeAt(root, path).initializer)
                   THEN evalExpr(root, Append(path, "initializer"), body.st)
                   ELSE [r |-> Nothing, st |-> body.st])

\* while (condition) stmt and do stmt while (condition)
WhileLoop(root, path, body, condition) ==
    LET origin == [at |-> path, role |-> "loop"]
        conditionOutput == getAslStateOutput(condition.r)
        loop ==
          [startState |-> "check",
           states |-> <<
             Entry("check",
                   [Type |-> "Choice",
                    node |-> NodeOf(root, Append(path, "condition")),
                    Choices |-> <<Choice(isTruthyOutput(conditionOutput),
                                         "whenTrue")>>,
                    Default |-> DeferNext,
                    origin |-> [origin EXCEPT !.role = "check"]]),
             Entry("whenTrue",
                   updateDeferredNextStates([Next |-> "check"], body.r))>>
             \o LoopLabels("check", DeferNext, origin)]
    IN [r |-> joinSubStates(NodeOf(root, Append(path, "condition")),
                            Append(ExprStates(condition.r), loop)),
        st |-> condition.st]
WhileBody(root, path, body) ==
    IF Threw(body) THEN Abort(body) ELSE
    IF IsNothing(body.r)
    THEN [r |-> Nothing,
          st |-> SynthError(body.st, "a block must have at least one Stmt")]
    ELSE WhileLoop(root, path, body,
                   evalExpr(root, Append(path, "condition"), body.st))

evalLoop(root, path, returnPass, st) ==
    CASE NodeAt(root, path).kind \in {"ForOfStmt", "ForInStmt"} ->
           ForOfExpr(root, path, returnPass,
                     evalExpr(root, Append(path, "expr"), st))
      [] NodeAt(root, path).kind = "ForStmt" ->
           ForBody(root, path,
                   evalStmt(root, Append(path, "stmt"), returnPass, st))
      [] OTHER ->
           WhileBody(root, path,
                     evalStmt(root, Append(path, "stmt"), returnPass, st))

\* evalStmt(stmt, returnPass) for the statement at path: a try statement
evalTry(root, path, returnPass, st) ==
    LET stmt == NodeAt(root, path)
        origin == [at |-> path, role |-> "try"]
        hasCatch == IsNode(stmt.catchClause)
        hasFinally == IsNode(stmt.finallyBlock)
        catchPath == Append(path, "catchClause")
        finallyPath == Append(path, "finallyBlock")
        errorVariableName == GeneratedName(catchPath)
        try == evalStmt(root, Append(path, "tryBlock"), returnPass, st)
        tryState ==
            [startState |-> "try",
             node |-> NodeOf(root, Append(path, "tryBlock")),
             states |-> <<Entry("try",
                                IF IsNothing(try.r)
                                THEN VoidPass(DeferNext, [origin EXCEPT !.role = "try.empty"])
                                ELSE try.r)>>
                        \o (IF hasCatch
                            THEN <<Entry(CatchState,
                                         EmptyPass("catch",
                                                   [origin EXCEPT !.role = "try.__catch"]))>>
                            ELSE <<>>)]
        tryFlowStates ==
            IF hasCatch /\ hasTask(stmt.tryBlock) /\ IsNode(stmt.catchClause.variableDecl)
            THEN joinSubStates(NodeOf(root, Append(catchPath, "variableDecl")),
                   <<ParseJsonTo("$." \o errorVariableName \o ".Cause",
                                 "$." \o errorVariableName, "0_ParsedError",
                                 [at |-> catchPath, role |-> "catch.parse"]),
                     [Type |-> "Pass",
                      InputPath |-> "$." \o errorVariableName \o ".0_ParsedError",
                      ResultPath |-> "$." \o errorVariableName,
                      Next |-> DeferNext,
                      origin |-> [at |-> catchPath, role |-> "catch.parsed"]]>>)
            ELSE Nothing
        catch == IF hasCatch THEN evalStmt(root, catchPath, returnPass, try.st)
                 ELSE [r |-> Nothing, st |-> try.st]
        catchClauseState ==
            [startState |-> "catch",
             states |-> <<Entry("catch",
                                joinSubStates(NodeOf(root, catchPath),
                                              <<tryFlowStates, catch.r>>))>>
                        \o (IF hasFinally
                            THEN <<Entry(CatchState,
                                         EmptyPass("finally",
                                                   [origin EXCEPT !.role = "catch.__catch"]))>>
                            ELSE <<>>)]
        finally == IF hasFinally THEN evalStmt(root, finallyPath, returnPass, catch.st)
                   ELSE [r |-> Nothing, st |-> catch.st]
        finallyState ==
            joinSubStates(NodeOf(root, finallyPath),
              <<IF IsNothing(finally.r)
                THEN VoidPass(DeferNext, [origin EXCEPT !.role = "finally.empty"])
                ELSE finally.r,
                IF /\ hasCatch
                   /\ canThrow(stmt.catchClause)
                   /\ ~isTerminal(stmt.finallyBlock)
                THEN ReThrow("$." \o GeneratedName(finallyPath),
                             throw(root, finallyPath), origin)
                ELSE Nothing>>)
    IN IF Threw(try) THEN Abort(try)
       ELSE IF Threw(catch) THEN Abort(catch)
       ELSE IF Threw(finally) THEN Abort(finally)
       ELSE
       [r |-> [startState |-> "try",
               node |-> NodeOf(root, path),
               states |->
                 <<Entry("try",
                         IF hasFinally
                         THEN updateDeferredNextStates([Next |-> "finally"], tryState)
                         ELSE tryState)>>
                 \o (IF hasCatch
                     THEN <<Entry("catch",
                                  IF hasFinally
                                  THEN updateDeferredNextStates([Next |-> "finally"],
                                                                catchClauseState)
                                  ELSE catchClauseState)>>
                     ELSE <<>>)
                 \o (IF hasFinally THEN <<Entry("finally", finallyState)>> ELSE <<>>)],
        st |-> finally.st]

\* evalStmt(stmt, returnPass), stmt being the node at path; r is the graph of
\* the statement, Nothing when it needs no state
evalStmt(root, path, returnPass, st) ==
    LET stmt == NodeAt(root, path)
        here == NodeOf(root, path)
        origin == [at |-> path, role |-> stmt.kind]
    IN CASE stmt.kind = "BlockStmt" ->
              LET Block(each) ==
                    IF Threw(each) THEN Abort(each)
                    ELSE [r |-> joinSubStates(here, each.r), st |-> each.st]
              IN Block(evalStatements(root, path, 1, returnPass, st, <<>>))
         [] stmt.kind \in {"BreakStmt", "ContinueStmt"} ->
              IF FindLoop(root, path) = <<"none">>
              THEN [r |-> Nothing, st |-> SynthError(st, "Stack Underflow")]
              ELSE [r |-> IF stmt.kind = "BreakStmt"
                          THEN [node |-> here, Type |-> "Pass", Next |-> BreakNext,
                                origin |-> origin]
                          ELSE [node |-> here, Type |-> "Pass", Next |-> ContinueNext,
                                ResultPath |-> NoResultPath, origin |-> origin],
                    st |-> st]
         [] stmt.kind = "ExprStmt" ->
              LET Statement(expr) ==
                    IF Threw(expr) THEN Abort(expr) ELSE
                    [r |-> IF isOutputStateOrSubState(expr.r) THEN expr.r
                           ELSE WithNode(VoidPass(DeferNext, origin), here),
                     st |-> expr.st]
              IN Statement(evalExpr(root, Append(path, "expr"), st))
         [] isLoop(stmt) -> evalLoop(root, path, returnPass, st)
         [] stmt.kind = "IfStmt" ->
              LET ifs == IfChain(root, path)
                  last == ifs[Len(ifs)]
                  hasElse == IsNode(NodeAt(root, last).else)
                  Chain(ifStates, elsState) ==
                    IF Threw(elsState) THEN Abort(elsState) ELSE
                    [r |-> [startState |-> "if",
                            states |-> Append(ifStates.r,
                               Entry("else",
                                     IF IsNothing(elsState.r)
                                     THEN EmptyPass(DeferNext,
                                                    [origin EXCEPT !.role = "else"])
                                     ELSE elsState.r))],
                     st |-> elsState.st]
                  Else(ifStates) ==
                    IF Threw(ifStates) THEN Abort(ifStates) ELSE
                    Chain(ifStates,
                          IF hasElse
                          THEN evalStmt(root, Append(last, "else"), returnPass,
                                        ifStates.st)
                          ELSE [r |-> Nothing, st |-> ifStates.st])
              IN Else(evalIfs(root, ifs, 1, hasElse, returnPass, st, <<>>))
         [] stmt.kind = "ReturnStmt" ->
              LET Return(expr, normalizedState) ==
                    [r |-> joinSubStates(NodeOf(root, Append(path, "expr")),
                             ExprStates(expr.r)
                             \o <<normalizedState.r,
                                  passWithInput([Type |-> "Pass", origin |-> origin]
                                                @@ returnPass,
                                                getAslStateOutput(normalizedState.r))>>),
                     st |-> normalizedState.st]
                  Normalize(expr, output) ==
                    Return(expr,
                           IF isConditionOutput(output)
                           THEN conditionState(NodeOf(root, Append(path, "expr")),
                                               output.condition, Nothing, Nothing, "",
                                               origin, expr.st)
                           ELSE [r |-> output, st |-> expr.st])
                  Value(expr) ==
                    IF Threw(expr) THEN Abort(expr)
                    ELSE Normalize(expr, getAslStateOutput(expr.r))
              IN Value(evalExpr(root, Append(path, "expr"), st))
         [] stmt.kind = "VariableStmt" ->
              \* evalDecl(decl) of a declaration without initializer: undefined
              [r |-> joinSubStates(here, [i \in 1..Len(stmt.decls) |-> Nothing]),
               st |-> st]
         [] stmt.kind = "ThrowStmt" ->
              IF stmt.expr.kind \notin {"NewExpr", "CallExpr"}
              THEN [r |-> Nothing,
                    st |-> SynthError(st, "the expr of a ThrowStmt must be a NewExpr or CallExpr")]
              ELSE IF stmt.expr.kind # "NewExpr" \/ stmt.expr.expr # "Error"
              THEN [r |-> Nothing,
                    st |-> SynthError(st, "StepFunction_Throw_must_be_Error_or_StepFunctionError_class")]
              ELSE LET causeJson ==
                         JObj(<<[k |-> "message",
                                 v |-> IF Len(stmt.expr.args) = 0 THEN JNull
                                       ELSE LiteralJson(stmt.expr.args[1])]>>)
                       throwState == ThrowState("Error", causeJson, throw(root, path),
                                                origin)
                   IN [r |-> WithNode(throwState, here), st |-> st]
         [] stmt.kind = "TryStmt" -> evalTry(root, path, returnPass, st)
         [] stmt.kind = "CatchClause" ->
              LET Clause(block, initialize) ==
                    [r |-> joinSubStates(here,
                             <<initialize.r,
                               IF IsNothing(block.r)
                               THEN EmptyPass(DeferNext,
                                              [origin EXCEPT !.role = "catch.empty"])
                               ELSE block.r>>),
                     st |-> initialize.st]
                  Initialize(block) ==
                    IF Threw(block) THEN Abort(block) ELSE
                    Clause(block,
                           IF IsNode(stmt.variableDecl)
                           THEN evalDecl(root, Append(path, "variableDecl"),
                                         [jsonPath |-> "$." \o GeneratedName(path)],
                                         block.st)
                           ELSE [r |-> Nothing, st |-> block.st])
              IN Initialize(evalStmt(root, Append(path, "block"), returnPass, st))
         \* an expression, lowered by eval; eval rejects every other node
         [] OTHER -> eval(root, path, st)

(***************************************************************************)
(* ASL constructor: from the function to the state machine definition      *)
(***************************************************************************)

\* FUNCTIONLESS_CONTEXT_NAME
ContextName == "fnl_context"

\* evalParameterDeclForStateParameter: the Parameters that bind the input
\* parameter, when the function has one, to the input of the execution
ParamInitializer(fn, st) ==
    IF Len(fn.parameters) = 0 THEN [r |-> <<>>, st |-> st]
    ELSE LET n == getIdentifierName(fn.parameters[1], st)
         IN [r |-> <<[name |-> n.name \o ".$", value |-> "$$.Execution.Input"]>>,
             st |-> n.st]

\* the state every machine starts with
FunctionlessContext(paramInitializer) ==
    [Type |-> "Pass",
     Parameters |-> <<[name |-> ContextName,
                       value |-> JObj(<<[k |-> "null", v |-> JNull]>>)]>>
                    \o paramInitializer,
     ResultPath |-> "$",
     Next |-> DeferNext,
     origin |-> [at |-> <<>>, role |-> "context"]]

\* new ASL(scope, role, decl): the normalized function, the definition and
\* the allocators after the construction, or the error thrown
Built(root, states, machine) ==
    [decl |-> root,
     error |-> states.st.error,
     definition |-> IF states.st.error = "" THEN machine.definition ELSE Nothing,
     st |-> IF states.st.error = ""
            THEN [states.st EXCEPT !.stateNames = machine.names]
            ELSE states.st]

\* the graph of the body after the context state, flattened
Flatten(root, params, states) ==
    Built(root, states,
          aslGraphToStates(
            joinSubStates(NodeOf(root, <<"body">>),
                          <<FunctionlessContext(params.r), states.r>>),
            "Initialize Functionless Context", states.st.stateNames))

\* the body, lowered after the parameter
Body(root, params) ==
    Flatten(root, params, evalStmt(root, <<"body">>, FunctionReturnPass, params.st))

\* the constructor, from the normalized function on
Lowered(root) == Body(root, ParamInitializer(root, NewCompilation))

Construct(fn) == Lowered(NormalizeDecl(fn))

(***************************************************************************)
(* The functions given to the compiler: a leaf block wrapped in up to      *)
(* MaxDepth compound statements                                            *)
(***************************************************************************)

\* the nesting depth of the compound statements around the innermost block
MaxDepth == 2

\* the declarations the functions refer to
DeclX == "x"
DeclC == "c"
DeclXs == "xs"
DeclErr == "err"
DeclLoop == "v"

VarX == Identifier("x", DeclX)
VarC == Identifier("c", DeclC)
VarXs == Identifier("xs", DeclXs)

\* $SFN: a reference to a value outside the function
RefSFN == [kind |-> "ReferenceExpr", name |-> "$SFN"]

\* x = 1
AssignX == ExprStmt(BinaryExpr(VarX, "=", NumberLiteralExpr(1)))

\* await task()
CallTask == ExprStmt(IntegrationCallExpr("task"))

ThrowBoom == ThrowStmt(NewErrorExpr("boom"))

\* the innermost blocks
LeafBlocks ==
    {<<>>, <<ReturnStmt(NumberLiteralExpr(1))>>, <<ThrowBoom>>, <<BreakStmt>>,
     <<ContinueStmt>>, <<AssignX>>, <<CallTask>>}

\* a compound statement and the place of the inner block in it
TryFrames ==
    {"tryCatch.try", "tryCatch.catch", "tryFinally.try", "tryFinally.finally",
     "tryCatchFinally.try", "tryCatchFinally.catch", "tryCatchFinally.finally"}

IfFrames == {"if.then", "ifElse.then", "ifElse.else"}

LoopFrames == {"for", "forOf", "forIn", "while", "do"}

StmtFrames == TryFrames \cup IfFrames \cup LoopFrames

\* whether the other blocks and optional parts of the compound statements
\* are absent or present
Fills == {"empty", "full"}

\* the statement of frame around the statements inner, at nesting level
Wrap(frame, inner, level, fill) ==
    LET full == fill = "full"
        in == BlockStmt(inner)
        other == BlockStmt(IF full THEN <<AssignX>> ELSE <<>>)
        task == BlockStmt(IF full THEN <<CallTask>> ELSE <<>>)
        thrower == BlockStmt(IF full THEN <<ThrowBoom>> ELSE <<>>)
        errDecl == IF full THEN VariableDecl("err", DeclErr \o ToString(level)) ELSE NoNode
        loopDecl == VariableDecl("v", DeclLoop \o ToString(level))
    IN CASE frame = "tryCatch.try" -> TryStmt(in, CatchClause(errDecl, other), NoNode)
         [] frame = "tryCatch.catch" -> TryStmt(task, CatchClause(errDecl, in), NoNode)
         [] frame = "tryFinally.try" -> TryStmt(in, NoNode, other)
         [] frame = "tryFinally.finally" -> TryStmt(task, NoNode, in)
         [] frame = "tryCatchFinally.try" ->
              TryStmt(in, CatchClause(errDecl, thrower), other)
         [] frame = "tryCatchFinally.catch" ->
              TryStmt(task, CatchClause(errDecl, in), other)
         [] frame = "tryCatchFinally.finally" ->
              TryStmt(task, CatchClause(errDecl, thrower), in)
         [] frame = "if.then" -> IfStmt(VarC, in, NoNode)
         [] frame = "ifElse.then" -> IfStmt(VarC, in, other)
         [] frame = "ifElse.else" -> IfStmt(VarC, other, in)
         [] frame = "for" ->
              IF full
              THEN ForStmt(BinaryExpr(VarX, "=", NumberLiteralExpr(0)), VarC,
                           BinaryExpr(VarX, "=", NumberLiteralExpr(1)), in)
              ELSE ForStmt(NoNode, NoNode, NoNode, in)
         [] frame = "forOf" -> ForOfStmt(loopDecl, VarXs, in)
         [] frame = "forIn" -> ForInStmt(loopDecl, VarXs, in)
         [] frame = "while" -> WhileStmt(VarC, in)
         [] frame = "do" -> DoStmt(in, VarC)
         [] frame = "callback" -> ExprStmt(CallbackCallExpr(VarXs, "forEach", in))
         [] frame = "xs.map" -> ExprStmt(CallbackCallExpr(VarXs, "map", in))
         [] frame = "xs.filter" -> ExprStmt(CallbackCallExpr(VarXs, "filter", in))
         [] frame = "xs.some" -> ExprStmt(CallbackCallExpr(VarXs, "some", in))
         [] frame = "$SFN.map" -> ExprStmt(CallbackCallExpr(RefSFN, "map", in))
         [] frame = "$SFN.forEach" -> ExprStmt(CallbackCallExpr(RefSFN, "forEach", in))

RECURSIVE BuildBody(_, _, _, _)
\* the statements of the block at nesting level: the leaf statements inside
\* the frames level..Len(frames)
BuildBody(frames, level, leaf, fill) ==
    IF level > Len(frames) THEN leaf
    ELSE (IF fill = "full" THEN <<AssignX>> ELSE <<>>)
         \o <<Wrap(frames[level], BuildBody(frames, level + 1, leaf, fill), level, fill)>>

FrameSeqs(frameKinds) == UNION {[1..k -> frameKinds] : k \in 0..MaxDepth}

Functions(frameKinds) ==
    {FunctionLike(<<ParameterDecl("c", DeclC)>>,
                  BlockStmt(BuildBody(frames, 1, leaf, fill))) :
        frames \in FrameSeqs(frameKinds), leaf \in LeafBlocks, fill \in Fills}

(***************************************************************************)
(* Specification of the normalizer: the first step of the constructor      *)
(***************************************************************************)

InitNormalize ==
    /\ StateNamesIdle
    /\ VariableNamesIdle
    /\ input \in Functions(StmtFrames \cup {"callback"})
    /\ decl = NoNode
    /\ definition = Nothing
    /\ heapCounter = 0
    /\ thrown = ""
    /\ pc = "constructor"
    /\ ExecutionIdle

\* this.decl = decl = visitEachChild(decl, normalizeAST)
NormalizeAST ==
    /\ pc = "constructor"
    /\ decl' = NormalizeDecl(input)
    /\ pc' = "normalized"
    /\ UNCHANGED <<stateNameVars, variableNameVars, input, definition, heapCounter,
                   thrown, executionVars>>

NextNormalize == NormalizeAST

SpecNormalize == InitNormalize /\ [][NextNormalize]_vars

(***************************************************************************)
(* Specification of the compiler: one construction per function            *)
(***************************************************************************)

InitCompile ==
    /\ StateNamesIdle
    /\ VariableNamesIdle
    /\ input \in Functions(StmtFrames)
    /\ decl = NoNode
    /\ definition = Nothing
    /\ heapCounter = 0
    /\ thrown = ""
    /\ pc = "constructor"
    /\ ExecutionIdle

\* the fields of the ASL object after the constructor returned
Returns(asl) ==
    /\ asl.error = ""
    /\ decl' = asl.decl
    /\ definition' = asl.definition
    /\ stateNames' = asl.st.stateNames
    /\ variableNames' = asl.st.variableNames
    /\ variableNamesMap' = asl.st.variableNamesMap
    /\ heapCounter' = asl.st.heapCounter

\* the error after the constructor threw
Throws(asl) ==
    /\ asl.error # ""
    /\ decl' = asl.decl
    /\ thrown' = asl.error

\* the constructor returns with the definition built
Compile ==
    /\ pc = "constructor"
    /\ Returns(Construct(input))
    /\ pc' = "done"
    /\ UNCHANGED <<requested, returned, declIdent, declLog, input, thrown, executionVars>>

\* the constructor throws: there is no definition
CompileFails ==
    /\ pc = "constructor"
    /\ Throws(Construct(input))
    /\ pc' = "failed"
    /\ UNCHANGED <<stateNameVars, variableNameVars, input, definition, heapCounter,
                   executionVars>>

NextCompile == Compile \/ CompileFails

SpecCompile == InitCompile /\ [][NextCompile]_vars

(***************************************************************************)
(* The execution of a definition by the Step Functions service, as far as  *)
(* the states of task-free functions need it: Pass, Choice and Fail.  The  *)
(* document of the execution is kept as its leaves, path -> value; the     *)
(* intrinsic functions are not interpreted.                                *)
(***************************************************************************)

\* the states one execution may enter
MaxSteps == 40

\* the largest index of an item a path reads
MaxIndex == 3

\* the state named name of the definition, Nothing when there is none
StateNamed(machine, name) ==
    LET found == SelectSeq(machine.States, LAMBDA e : e.name = name)
    IN IF Len(found) = 0 THEN Nothing ELSE found[1].state

\* key lies below path in a document
IsUnder(key, path) ==
    /\ Len(key) > Len(path)
    /\ SubSeq(key, 1, Len(path) + 1) = path \o "."

\* the paths of the context object that are always there
ContextPaths == {"$$.Execution.Id", "$$.Execution.Input"}

\* the path ends with the suffix: an index [0] or a slice [1:]
EndsWith(path, suffix) ==
    /\ Len(path) > Len(suffix)
    /\ SubSeq(path, Len(path) - Len(suffix) + 1, Len(path)) = suffix

\* the path without the suffix
Before(path, suffix) == SubSeq(path, 1, Len(path) - Len(suffix))

\* the document holds an array at path
ArrayAt(path, doc) == path \in DOMAIN doc /\ doc[path].t = "array"

\* the index n > 0 of a path that ends with [n], 0 when it does not
IndexOf(path) ==
    IF \E n \in 1..MaxIndex : EndsWith(path, "[" \o ToString(n) \o "]")
    THEN CHOOSE n \in 1..MaxIndex : EndsWith(path, "[" \o ToString(n) \o "]")
    ELSE 0

\* the places in the path of [0]. before the name of a member
HeadMemberAt(path) == {j \in 1..(Len(path) - 4) : SubSeq(path, j, j + 3) = "[0]."}

\* the path of the array in array[0].member, and the name of the member
HeadOf(path) == SubSeq(path, 1, (CHOOSE j \in HeadMemberAt(path) : TRUE) - 1)

HeadMember(path) == SubSeq(path, (CHOOSE j \in HeadMemberAt(path) : TRUE) + 4, Len(path))

\* the path selects something in the document: array[0] the first element
\* of an array that has one, array[1:] the rest of an array
Present(path, doc) ==
    IF EndsWith(path, "[0]")
    THEN /\ ArrayAt(Before(path, "[0]"), doc)
         /\ Len(doc[Before(path, "[0]")].items) > 0
    ELSE IF IndexOf(path) > 0
    THEN /\ ArrayAt(Before(path, "[0]"), doc)
         /\ Len(doc[Before(path, "[0]")].items) > IndexOf(path)
    ELSE IF HeadMemberAt(path) # {}
    THEN /\ ArrayAt(HeadOf(path), doc)
         /\ Len(doc[HeadOf(path)].items) > 0
         /\ doc[HeadOf(path)].items[1].t = "object"
         /\ \E i \in 1..Len(doc[HeadOf(path)].items[1].members) :
                doc[HeadOf(path)].items[1].members[i].k = HeadMember(path)
    ELSE IF EndsWith(path, "[1:]")
    THEN ArrayAt(Before(path, "[1:]"), doc)
    ELSE \/ path \in ContextPaths
         \/ path \in DOMAIN doc
         \/ \E key \in DOMAIN doc : IsUnder(key, path)

\* the name of the member of the object at path that key lies in
MemberOf(key, path) ==
    LET from == Len(path) + 2
        dots == {j \in from..Len(key) : SubSeq(key, j, j) = "."}
    IN IF dots = {} THEN SubSeq(key, from, Len(key))
       ELSE SubSeq(key, from, (CHOOSE j \in dots : \A d \in dots : j <= d) - 1)

RECURSIVE ValueAt(_, _)
\* the value at path in the document: a leaf, or the object of the leaves
\* below path
ValueAt(path, doc) ==
    IF path \in DOMAIN doc THEN doc[path]
    ELSE IF EndsWith(path, "[0]") THEN doc[Before(path, "[0]")].items[1]
    ELSE IF IndexOf(path) > 0 THEN doc[Before(path, "[0]")].items[IndexOf(path) + 1]
    ELSE IF HeadMemberAt(path) # {}
    THEN LET head == doc[HeadOf(path)].items[1]
         IN head.members[CHOOSE i \in 1..Len(head.members) :
                           head.members[i].k = HeadMember(path)].v
    ELSE IF EndsWith(path, "[1:]")
    THEN JArr(IF Len(doc[Before(path, "[1:]")].items) = 0 THEN <<>>
              ELSE Tail(doc[Before(path, "[1:]")].items))
    ELSE LET names == {MemberOf(key, path) : key \in {k \in DOMAIN doc : IsUnder(k, path)}}
             order == CHOOSE seq \in [1..Cardinality(names) -> names] :
                        \A i, j \in DOMAIN seq : i # j => seq[i] # seq[j]
         IN JObj([i \in 1..Cardinality(names) |->
                    [k |-> order[i], v |-> ValueAt(path \o "." \o order[i], doc)]])

\* the value the path selects
ReadPath(path, doc, executionIn) ==
    IF path = "$$.Execution.Input" THEN executionIn
    ELSE IF path = "$$.Execution.Id" THEN JStr("execution")
    ELSE ValueAt(path, doc)

RECURSIVE Leaves(_, _)
\* the leaves of the value put at path, as <<path, value>> pairs: the
\* values that are no objects, and the objects without a member
Leaves(path, value) ==
    IF value.t = "object" /\ Len(value.members) > 0
    THEN UNION {Leaves(path \o "." \o value.members[i].k, value.members[i].v) :
                   i \in 1..Len(value.members)}
    ELSE {<<path, value>>}

\* the document that holds the leaves
DocOf(leaves) ==
    [key \in {leaf[1] : leaf \in leaves} |->
        (CHOOSE leaf \in leaves : leaf[1] = key)[2]]

\* the document with the value put at path: what was at or below it goes,
\* and an object above it is no longer empty
PutValue(doc, path, value) ==
    IF path = "$" THEN DocOf(Leaves("$", value))
    ELSE IF EndsWith(path, "[0]") /\ Present(path, doc)
    THEN [doc EXCEPT ![Before(path, "[0]")] = JArr(<<value>> \o Tail(@.items))]
    ELSE LET kept == {key \in DOMAIN doc :
                         /\ key # path /\ ~IsUnder(key, path) /\ key # "$"
                         /\ ~(IsUnder(path, key) /\ doc[key] = JObj(<<>>))}
         IN DocOf({<<key, doc[key]>> : key \in kept} \cup Leaves(path, value))

\* the JSON values whose text is parsed
ParsableJson ==
    {JObj(<<[k |-> "message", v |-> JStr(m)]>>) : m \in {"boom", "bang", "failed"}}
    \cup {JNum(n) : n \in ParsedNumbers} \cup {JBool(TRUE), JBool(FALSE), JNull}
    \cup {JObj(<<[k |-> "k", v |-> JObj(<<[k |-> "x", v |-> JNum(1)]>>)]>>)}
    \cup {JStr(s) : s \in {"", "a", "b"}}

RECURSIVE ItemTexts(_, _)
\* the texts between the commas of the text of an array; piece is the text
\* being read
ItemTexts(text, piece) ==
    IF Len(text) = 0 THEN <<piece>>
    ELSE IF SubSeq(text, 1, 1) = ","
    THEN <<piece>> \o ItemTexts(SubSeq(text, 2, Len(text)), "")
    ELSE ItemTexts(SubSeq(text, 2, Len(text)), piece \o SubSeq(text, 1, 1))

\* JSON.parse(text) of a text that is no array
ParseValue(text) ==
    IF text = "-0" THEN JNum(0)
    ELSE IF \E v \in ParsableJson : JsonStringify(v) = text
    THEN CHOOSE v \in ParsableJson : JsonStringify(v) = text
    ELSE Nothing

\* JSON.parse(text): Nothing when the text is not JSON; the items of an
\* array are no arrays and hold no comma
ParseJson(text) ==
    IF Len(text) >= 2 /\ SubSeq(text, 1, 1) = "[" /\ SubSeq(text, Len(text), Len(text)) = "]"
    THEN IF Len(text) = 2 THEN JArr(<<>>)
         ELSE LET texts == ItemTexts(SubSeq(text, 2, Len(text) - 1), "")
              IN IF \E i \in 1..Len(texts) : IsNothing(ParseValue(texts[i])) THEN Nothing
                 ELSE JArr([i \in 1..Len(texts) |-> ParseValue(texts[i])])
    ELSE ParseValue(text)

\* the member value calls States.StringToJson
IsStringToJson(value) ==
    /\ Len(value) > 21
    /\ SubSeq(value, 1, 20) = "States.StringToJson("

\* the path that is the argument of States.StringToJson
StringToJsonPath(value) == SubSeq(value, 21, Len(value) - 1)

RECURSIVE FormatText(_, _)
\* the template with each {} replaced by the next text
FormatText(template, texts) ==
    IF Len(template) = 0 THEN ""
    ELSE IF Len(template) > 1 /\ SubSeq(template, 1, 2) = "{}" /\ Len(texts) > 0
    THEN texts[1] \o FormatText(SubSeq(template, 3, Len(template)), Tail(texts))
    ELSE SubSeq(template, 1, 1) \o FormatText(SubSeq(template, 2, Len(template)), texts)

\* the text States.Format puts for a value; objects and arrays have none
FormatArgument(value) ==
    IF value.t = "string" THEN value.v
    ELSE IF value.t \in {"number", "boolean", "null"} THEN JsonStringify(value)
    ELSE ""

RECURSIVE SplitText(_, _, _)
\* the pieces of the text between the separator characters, the empty
\* pieces left out; piece is the piece being read
SplitText(text, separator, piece) ==
    LET done == IF piece = "" THEN <<>> ELSE <<JStr(piece)>>
    IN IF Len(text) = 0 THEN done
       ELSE IF SubSeq(text, 1, 1) = separator
       THEN done \o SplitText(SubSeq(text, 2, Len(text)), separator, "")
       ELSE SplitText(SubSeq(text, 2, Len(text)), separator,
                      piece \o SubSeq(text, 1, 1))

\* the value of the intrinsic function applied to the values of its
\* arguments, Nothing when the function fails on them
ApplyIntrinsic(fn, args) ==
    CASE fn = "States.MathAdd" ->
           IF args[1].t = "number" /\ args[2].t = "number"
           THEN JNum(args[1].v + args[2].v) ELSE Nothing
      [] fn = "States.Format" ->
           IF \A i \in 2..Len(args) : args[i].t \notin {"object", "array"}
           THEN JStr(FormatText(args[1].v,
                                [i \in 1..(Len(args) - 1) |-> FormatArgument(args[i + 1])]))
           ELSE Nothing
      [] fn = "States.StringSplit" ->
           IF args[1].t = "string" /\ args[2].t = "string"
           THEN JArr(SplitText(args[1].v, args[2].v, "")) ELSE Nothing
      [] fn = "States.ArrayGetItem" ->
           IF args[1].t = "array" /\ args[2].t = "number"
              /\ args[2].v + 1 \in 1..Len(args[1].items)
           THEN args[1].items[args[2].v + 1] ELSE Nothing
      [] fn = "States.JsonMerge" ->
           IF args[1].t = "object" /\ args[2].t = "object"
           THEN JObj(SelectSeq(args[1].members,
                               LAMBDA m : \A i \in 1..Len(args[2].members) :
                                             args[2].members[i].k # m.k)
                     \o args[2].members)
           ELSE Nothing
      [] fn = "States.StringToJson" ->
           IF args[1].t = "string" THEN ParseJson(args[1].v) ELSE Nothing
      [] fn = "States.JsonToString" ->
           IF args[1].t = "NaN" THEN Nothing
           ELSE JStr(JsonStringify(args[1]))
      [] OTHER -> Nothing

RECURSIVE IntrinsicValue(_, _, _)
\* the value of a path, a literal or an intrinsic function in the document,
\* Nothing when the path is not there, the literal is no JSON value or the
\* function fails
IntrinsicValue(x, doc, executionIn) ==
    IF isIntrinsic(x)
    THEN LET values == [i \in 1..Len(x.args) |->
                           IntrinsicValue(x.args[i], doc, executionIn)]
         IN IF \E i \in 1..Len(values) : IsNothing(values[i]) THEN Nothing
            ELSE ApplyIntrinsic(x.fn, values)
    ELSE IF isJsonPath(x)
    THEN IF Present(x.jsonPath, doc) THEN ReadPath(x.jsonPath, doc, executionIn)
         ELSE Nothing
    ELSE IF x.value = NaN THEN Nothing
    ELSE x.value

\* the value a member whose name ends with .$ takes is there: the path
\* selects something, the argument of States.StringToJson is a JSON text
SelectedPresent(value, doc, executionIn) ==
    IF IsStringToJson(value)
    THEN /\ Present(StringToJsonPath(value), doc)
         /\ ReadPath(StringToJsonPath(value), doc, executionIn).t = "string"
         /\ ~IsNothing(ParseJson(ReadPath(StringToJsonPath(value), doc, executionIn).v))
    ELSE Present(value, doc)

\* the value a member whose name ends with .$ takes
SelectedValue(value, doc, executionIn) ==
    IF IsStringToJson(value)
    THEN ParseJson(ReadPath(StringToJsonPath(value), doc, executionIn).v)
    ELSE ReadPath(value, doc, executionIn)

\* the leaves of the members of Parameters, below path: a member whose name
\* ends with .$ takes the value of a path of the input
ParameterLeaves(parameters, path, doc, executionIn) ==
    UNION {LET p == parameters[i]
               n == Len(p.name)
               selects == n > 2 /\ SubSeq(p.name, n - 1, n) = ".$"
           IN IF selects /\ Has(p, "intrinsic")
              THEN Leaves(path \o "." \o SubSeq(p.name, 1, n - 2),
                          IntrinsicValue(p.intrinsic, doc, executionIn))
              ELSE IF selects
              THEN Leaves(path \o "." \o SubSeq(p.name, 1, n - 2),
                          SelectedValue(p.value, doc, executionIn))
              ELSE Leaves(path \o "." \o p.name, p.value) :
           i \in 1..Len(parameters)}

\* every path the Parameters select is there
ParametersPresent(parameters, doc, executionIn) ==
    \A i \in 1..Len(parameters) :
        LET p == parameters[i]
            n == Len(p.name)
        IN (n > 2 /\ SubSeq(p.name, n - 1, n) = ".$") =>
              IF Has(p, "intrinsic")
              THEN ~IsNothing(IntrinsicValue(p.intrinsic, doc, executionIn))
              ELSE SelectedPresent(p.value, doc, executionIn)

\* the Pass state cannot compute its result: a path it reads is not there
PassFails(state, doc, executionIn) ==
    IF Has(state, "Parameters") THEN ~ParametersPresent(state.Parameters, doc, executionIn)
    ELSE IF Has(state, "Result") THEN FALSE
    ELSE Has(state, "InputPath") /\ ~Present(state.InputPath, doc)

\* the document after the Pass state: its result put at its ResultPath
PassDocument(state, doc, executionIn) ==
    LET path == IF Has(state, "ResultPath") THEN state.ResultPath ELSE "$"
    IN IF path = NoResultPath THEN doc
       ELSE IF Has(state, "Parameters")
       THEN LET leaves == ParameterLeaves(state.Parameters, path, doc, executionIn)
            IN IF path = "$" THEN DocOf(leaves)
               ELSE DocOf({<<key, doc[key]>> :
                              key \in {k \in DOMAIN doc :
                                         k # path /\ ~IsUnder(k, path) /\ k # "$"}}
                          \cup leaves)
       ELSE IF Has(state, "Result") THEN PutValue(doc, path, state.Result)
       ELSE IF Has(state, "InputPath")
       THEN PutValue(doc, path, ReadPath(state.InputPath, doc, executionIn))
       ELSE doc

\* the output of an execution that ends with the document
OutputOf(doc) ==
    IF "$" \in DOMAIN doc THEN doc["$"] ELSE [t |-> "document", leaves |-> doc]

RECURSIVE EvalCondition(_, _, _)
\* the condition of a branch of a Choice state holds of the document
EvalCondition(cond, doc, executionIn) ==
    LET there == Present(cond.Variable, doc)
        value == ReadPath(cond.Variable, doc, executionIn)
        isA(t) == there /\ value.t = t
    IN CASE Has(cond, "And") ->
              \A i \in 1..Len(cond.And) : EvalCondition(cond.And[i], doc, executionIn)
         [] Has(cond, "Or") ->
              \E i \in 1..Len(cond.Or) : EvalCondition(cond.Or[i], doc, executionIn)
         [] Has(cond, "Not") -> ~EvalCondition(cond.Not, doc, executionIn)
         [] Has(cond, "IsPresent") -> there = cond.IsPresent
         [] Has(cond, "IsNull") -> there /\ (value.t = "null") = cond.IsNull
         [] Has(cond, "IsBoolean") -> there /\ (value.t = "boolean") = cond.IsBoolean
         [] Has(cond, "IsString") -> there /\ (value.t = "string") = cond.IsString
         [] Has(cond, "IsNumeric") -> there /\ (value.t = "number") = cond.IsNumeric
         [] Has(cond, "StringEquals") ->
              IF isA("string") THEN value.v = cond.StringEquals ELSE FALSE
         [] Has(cond, "NumericEquals") ->
              IF isA("number") THEN value.v = cond.NumericEquals ELSE FALSE
         [] Has(cond, "NumericLessThan") ->
              IF isA("number") THEN value.v < cond.NumericLessThan ELSE FALSE
         [] Has(cond, "BooleanEquals") ->
              IF isA("boolean") THEN value.v = cond.BooleanEquals ELSE FALSE
         [] OTHER -> FALSE

\* the branches of the Choice state whose condition holds, in order
Matching(state, doc, executionIn) ==
    SelectSeq(state.Choices, LAMBDA c : EvalCondition(c, doc, executionIn))

(***************************************************************************)
(* The functions that are executed: they call no task and have no loop     *)
(***************************************************************************)

DeclY == "y"
DeclZ == "z"
DeclU == "u"

VarY == Identifier("y", DeclY)
VarU == Identifier("u", DeclU)

\* let u;
DeclareU == VariableStmt(<<VariableDecl("u", DeclU)>>)

\* z = 3
AssignZ == ExprStmt(BinaryExpr(Identifier("z", DeclZ), "=", NumberLiteralExpr(3)))

LogicalOps == {"&&", "||", "??"}

\* left operands that are not literals: c, (y = c), and u, which is never
\* assigned
LeftOperands == {VarC, BinaryExpr(VarY, "=", VarC), VarU}

\* a right operand that needs a state to compute: (x = 1)
RightOperand == BinaryExpr(VarX, "=", NumberLiteralExpr(1))

\* (c) => { let u; return a op (x = 1) }
LogicalFunctions ==
    {FunctionLike(<<ParameterDecl("c", DeclC)>>,
                  BlockStmt(<<DeclareU, ReturnStmt(BinaryExpr(a, op, RightOperand))>>)) :
        a \in LeftOperands, op \in LogicalOps}

\* the place of the logical expression in a function of LogicalFunctions
LogicalPath == <<"body", "2", "expr">>

TryBlocks == {<<ReturnStmt(NumberLiteralExpr(1))>>, <<ThrowBoom>>, <<AssignX>>}

CatchClauses ==
    {NoNode,
     CatchClause(NoNode, BlockStmt(<<ReturnStmt(NumberLiteralExpr(2))>>)),
     CatchClause(VariableDecl("err", DeclErr), BlockStmt(<<AssignX>>))}

FinallyBlocks == {NoNode, BlockStmt(<<AssignZ>>)}

\* (c) => { try { ... } catch ... finally { z = 3 } }, each part but the try
\* block present or not
TryFunctions ==
    {FunctionLike(<<ParameterDecl("c", DeclC)>>,
                  BlockStmt(<<TryStmt(BlockStmt(parts[1]), parts[2], parts[3])>>)) :
        parts \in {p \in TryBlocks \X CatchClauses \X FinallyBlocks :
                      IsNode(p[2]) \/ IsNode(p[3])}}

\* (c) => { throw new Error("boom") } and (c) => { x = 1 }
PlainFunctions ==
    {FunctionLike(<<ParameterDecl("c", DeclC)>>, BlockStmt(body)) :
        body \in {<<ThrowBoom>>, <<AssignX>>}}

RunFunctions == LogicalFunctions \cup TryFunctions \cup PlainFunctions

\* the inputs of the executions
ExecutionInputs ==
    {JNull, JBool(TRUE), JBool(FALSE), JNum(0), JNum(1), JStr(""), JStr("a")}

(***************************************************************************)
(* Specification of the execution: one function is compiled, then its      *)
(* definition is executed on one input                                     *)
(***************************************************************************)

InitRun ==
    /\ StateNamesIdle
    /\ VariableNamesIdle
    /\ input \in RunFunctions
    /\ decl = NoNode
    /\ definition = Nothing
    /\ heapCounter = 0
    /\ thrown = ""
    /\ pc = "constructor"
    /\ executionInput = Nothing
    /\ current = ""
    /\ data = <<>>
    /\ trace = <<>>
    /\ status = "idle"
    /\ outcome = Nothing

\* StartExecution: the machine is entered at StartAt with the input
StartExecutionOf(inputs) ==
    /\ pc = "done"
    /\ status = "idle"
    /\ \E in \in inputs :
          /\ executionInput' = in
          /\ data' = PutValue(<<>>, "$", in)
    /\ current' = definition.StartAt
    /\ status' = "running"
    /\ UNCHANGED <<stateNameVars, variableNameVars, constructorVars, trace, outcome>>

StartExecution == StartExecutionOf(ExecutionInputs)

\* the execution can enter the state it is at
Entering(type) ==
    /\ status = "running"
    /\ Len(trace) < MaxSteps
    /\ ~IsNothing(StateNamed(definition, current))
    /\ StateNamed(definition, current).Type = type
    /\ trace' = Append(trace, [name |-> current,
                               origin |-> StateNamed(definition, current).origin])

\* the execution ends with an error
FailsWith(error) ==
    /\ status' = "failed"
    /\ outcome' = error
    /\ UNCHANGED <<current, data>>

\* a Pass state: its result is put at its ResultPath; the execution goes on
\* at Next, or ends with the document when the state has End
StepPass ==
    /\ Entering("Pass")
    /\ LET state == StateNamed(definition, current)
           doc == PassDocument(state, data, executionInput)
       IN IF PassFails(state, data, executionInput)
          THEN FailsWith([Error |-> "States.Runtime"])
          ELSE /\ data' = doc
               /\ IF Has(state, "End") /\ state.End
                  THEN /\ status' = "succeeded"
                       /\ outcome' = OutputOf(doc)
                       /\ UNCHANGED current
                  ELSE /\ current' = state.Next
                       /\ UNCHANGED <<status, outcome>>
    /\ UNCHANGED <<stateNameVars, variableNameVars, constructorVars, executionInput>>

\* a Choice state: on to the first branch whose condition holds, or Default
StepChoice ==
    /\ Entering("Choice")
    /\ LET state == StateNamed(definition, current)
           matching == Matching(state, data, executionInput)
       IN IF Len(matching) > 0
          THEN /\ current' = matching[1].Next
               /\ UNCHANGED <<data, status, outcome>>
          ELSE IF Has(state, "Default")
          THEN /\ current' = state.Default
               /\ UNCHANGED <<data, status, outcome>>
          ELSE FailsWith([Error |-> "States.NoChoiceMatched"])
    /\ UNCHANGED <<stateNameVars, variableNameVars, constructorVars, executionInput>>

\* a Fail state: the execution ends with its error and cause
StepFail ==
    /\ Entering("Fail")
    /\ LET state == StateNamed(definition, current)
       IN FailsWith([Error |-> state.Error, Cause |-> state.Cause])
    /\ UNCHANGED <<stateNameVars, variableNameVars, constructorVars, executionInput>>

\* the transition taken names no state of the definition: the service
\* rejects such a definition, no state is entered
StepMissing ==
    /\ status = "running"
    /\ IsNothing(StateNamed(definition, current))
    /\ FailsWith([Error |-> "States.Runtime"])
    /\ UNCHANGED <<stateNameVars, variableNameVars, constructorVars, executionInput,
                   trace>>

\* the error a failed task reports: its Cause is the JSON text of the error
\* object the task threw
TaskError ==
    JObj(<<[k |-> "Error", v |-> JStr("TaskFailed")],
           [k |-> "Cause", v |-> JStr("{\"message\":\"failed\"}")]>>)

\* what a task that succeeds returns
TaskResult == JStr("done")

\* the document after the state put the value at its ResultPath
ResultDocument(rule, doc, value) ==
    LET path == IF Has(rule, "ResultPath") THEN rule.ResultPath ELSE "$"
    IN IF path = NoResultPath THEN doc ELSE PutValue(doc, path, value)

\* a Task state whose task succeeds: the result is put at ResultPath
StepTask ==
    /\ Entering("Task")
    /\ LET state == StateNamed(definition, current)
           doc == ResultDocument(state, data, TaskResult)
       IN /\ data' = doc
          /\ IF Has(state, "End") /\ state.End
             THEN /\ status' = "succeeded"
                  /\ outcome' = OutputOf(doc)
                  /\ UNCHANGED current
             ELSE /\ current' = state.Next
                  /\ UNCHANGED <<status, outcome>>
    /\ UNCHANGED <<stateNameVars, variableNameVars, constructorVars, executionInput>>

\* the most states one iteration of a Map state enters
MaxIteratorSteps == 4

RECURSIVE RunIterator(_, _, _, _, _)
\* the output of one iteration of a Map state: the iterator run from the
\* state named name on the document doc, Nothing when the iteration fails
\* or takes more than MaxIteratorSteps states
RunIterator(machine, name, doc, executionIn, steps) ==
    IF steps = MaxIteratorSteps \/ IsNothing(StateNamed(machine, name)) THEN Nothing
    ELSE IF StateNamed(machine, name).Type = "Pass"
    THEN IF PassFails(StateNamed(machine, name), doc, executionIn) THEN Nothing
         ELSE IF Has(StateNamed(machine, name), "End") /\ StateNamed(machine, name).End
         THEN ValueAt("$", PassDocument(StateNamed(machine, name), doc, executionIn))
         ELSE RunIterator(machine, StateNamed(machine, name).Next,
                          PassDocument(StateNamed(machine, name), doc, executionIn),
                          executionIn, steps + 1)
    ELSE IF StateNamed(machine, name).Type = "Choice"
    THEN IF Len(Matching(StateNamed(machine, name), doc, executionIn)) > 0
         THEN RunIterator(machine,
                          Matching(StateNamed(machine, name), doc, executionIn)[1].Next,
                          doc, executionIn, steps + 1)
         ELSE IF Has(StateNamed(machine, name), "Default")
         THEN RunIterator(machine, StateNamed(machine, name).Default, doc,
                          executionIn, steps + 1)
         ELSE Nothing
    ELSE Nothing

\* the input of the iteration of a Map state for the item at the index:
\* the Parameters, which select the item and the text of its index
MapItemInput(state, item, index) ==
    JObj([i \in 1..Len(state.Parameters) |->
            LET p == state.Parameters[i]
            IN [k |-> SubSeq(p.name, 1, Len(p.name) - 2),
                v |-> IF p.value = "$$.Map.Item.Value" THEN item
                      ELSE JStr(ToString(index))]])

\* the outputs of the iterations of a Map state over the items
MapOutputs(state, items, executionIn) ==
    [i \in 1..Len(items) |->
        RunIterator(state.Iterator, state.Iterator.StartAt,
                    PutValue(<<>>, "$", MapItemInput(state, items[i], i - 1)),
                    executionIn, 0)]

\* a Map state: the iterator runs on every item of the array at ItemsPath,
\* the array of the outputs is put at ResultPath; the execution fails when
\* there is no array or an iteration fails
StepMap ==
    /\ Entering("Map")
    /\ LET state == StateNamed(definition, current)
       IN IF ~ArrayAt(state.ItemsPath, data)
          THEN FailsWith([Error |-> "States.Runtime"])
          ELSE \E outputs \in {MapOutputs(state, data[state.ItemsPath].items,
                                           executionInput)} :
                 IF \E i \in 1..Len(outputs) : IsNothing(outputs[i])
                 THEN FailsWith([Error |-> "States.Runtime"])
                 ELSE /\ data' = PutValue(data, state.ResultPath, JArr(outputs))
                      /\ current' = state.Next
                      /\ UNCHANGED <<status, outcome>>
    /\ UNCHANGED <<stateNameVars, variableNameVars, constructorVars, executionInput>>

\* a Task state whose task fails: the first catcher (of States.ALL) takes
\* the error, put at the catcher's ResultPath; without Catch the execution
\* fails
StepTaskFails ==
    /\ Entering("Task")
    /\ LET state == StateNamed(definition, current)
       IN IF Has(state, "Catch")
          THEN /\ data' = ResultDocument(state.Catch[1], data, TaskError)
               /\ current' = state.Catch[1].Next
               /\ UNCHANGED <<status, outcome>>
          ELSE FailsWith([Error |-> "TaskFailed",
                          Cause |-> "{\"message\":\"failed\"}"])
    /\ UNCHANGED <<stateNameVars, variableNameVars, constructorVars, executionInput>>

NextRun == Compile \/ StartExecution \/ StepPass \/ StepChoice \/ StepFail \/ StepMissing

SpecRun == InitRun /\ [][NextRun]_vars

(***************************************************************************)
(* Properties of the name allocators                                       *)
(***************************************************************************)

\* the names returned before the i-th request
ReturnedBefore(i) == {returned[j] : j \in 1..(i - 1)}

\* C7: createUniqueStateName never returns the same string twice; a request
\* whose truncated name was not returned before gets the truncated name, a
\* colliding request gets the truncated name suffixed with " N"
C7_UniqueStateNames ==
    /\ \A i, j \in 1..Len(returned) : i # j => returned[i] # returned[j]
    /\ \A i \in 1..Len(returned) :
          LET t == Slice(requested[i], MaxStateNameLength)
          IN IF t \notin ReturnedBefore(i)
             THEN returned[i] = t
             ELSE \E n \in 1..i : returned[i] = FormatStateName(t, n)

\* C7 witness: `a`, `a`, then the previously generated `a 1` were requested,
\* and two different long names truncated to the same 75 characters
C7_Witness ==
    /\ Len(returned) = 5
    /\ SubSeq(requested, 1, 3) = <<"a", "a", "a 1">>
    /\ returned[3] = "a 1 1"
    /\ \E i, j \in 1..Len(requested) :
          /\ i < j
          /\ requested[i] = LongName \o "x"
          /\ requested[j] = LongName \o "yz"
          /\ returned[j] = FormatStateName(LongName, 1)

\* C8 as claimed: every returned name is at most 75 characters long
C8_AtMost75 ==
    \A i \in 1..Len(returned) : Len(returned[i]) <= MaxStateNameLength

\* C8 as amended: a name returned without a collision suffix is at most 75
\* characters long; a name that received the suffix " N" is at most 75
\* characters plus the length of that suffix
C8_AtMost75PlusSuffix ==
    \A i \in 1..Len(returned) :
        IF Slice(requested[i], MaxStateNameLength) \in ReturnedBefore(i)
        THEN Len(returned[i]) <= MaxStateNameLength + 1 + Len(ToString(i - 1))
        ELSE Len(returned[i]) <= MaxStateNameLength

\* C8 witness: a name of 75 characters collided and was returned suffixed
C8_Witness ==
    \E i \in 1..Len(returned) :
        /\ Len(requested[i]) >= MaxStateNameLength
        /\ returned[i] = FormatStateName(LongName, 1)
        /\ Len(returned[i]) = MaxStateNameLength + 2

\* the position of the first call that named declaration d
FirstCall(d) ==
    CHOOSE i \in 1..Len(declLog) :
        declLog[i][1] = d /\ \A j \in 1..(i - 1) : declLog[j][1] # d

NamedDecls == {declLog[i][1] : i \in 1..Len(declLog)}

\* the names handed out before declaration d was first named
NamesBefore(d) == {declLog[j][2] : j \in 1..(FirstCall(d) - 1)}

\* the number of declarations of d's identifier that were named before d
Rank(d) ==
    Cardinality({e \in NamedDecls :
        declIdent[e] = declIdent[d] /\ FirstCall(e) < FirstCall(d)})

\* every call returns the name the declaration got on its first call, and
\* distinct declarations have distinct names
StableInjective ==
    /\ \A i \in 1..Len(declLog) :
          declLog[i][2] = declLog[FirstCall(declLog[i][1])][2]
    /\ \A i, j \in 1..Len(declLog) :
          declLog[i][1] # declLog[j][1] => declLog[i][2] # declLog[j][2]

\* C9 as claimed: names are stable and injective, the first declaration of
\* identifier x is named x and the k-th later one x__k
C9_NthDeclGetsNth ==
    /\ StableInjective
    /\ \A d \in NamedDecls :
          declLog[FirstCall(d)][2] =
              IF Rank(d) = 0 THEN declIdent[d]
              ELSE FormatVariableName(declIdent[d], Rank(d))

\* C9 as amended: names are stable and injective; a declaration is named by
\* its identifier x unless that string was already handed out, and else
\* x__N for the smallest N >= 1 whose x__N was not handed out yet
C9_StableUniqueNames ==
    /\ StableInjective
    /\ \A d \in NamedDecls :
          LET x == declIdent[d]
              name == declLog[FirstCall(d)][2]
          IN IF x \notin NamesBefore(d)
             THEN name = x
             ELSE \E n \in 1..MaxDecls :
                    /\ name = FormatVariableName(x, n)
                    /\ name \notin NamesBefore(d)
                    /\ \A m \in 1..(n - 1) :
                          FormatVariableName(x, m) \in NamesBefore(d)

\* C9 witness: x, then a declaration literally named x__1, then another x,
\* and the first declaration was asked for again in between
C9_Witness ==
    /\ Len(declLog) = 4
    /\ declIdent[1] = "x" /\ declIdent[2] = "x__1" /\ declIdent[3] = "x"
    /\ declLog = <<<<1, "x">>, <<2, "x__1">>, <<1, "x">>, <<3, "x__2">>>>

(***************************************************************************)
(* Properties of the normalizer                                            *)
(***************************************************************************)

RECURSIVE Normalized(_, _, _)
\* norm is orig with `return null` appended to exactly the blocks that are
\* the body of a function-like node and are empty or end with a statement
\* that is not terminal, and such a body ends with a terminal statement
Normalized(orig, norm, parentIsFunctionLike) ==
    LET same(field) ==
            IF IsNode(orig[field])
            THEN Normalized(orig[field], norm[field], isFunctionLike(orig))
            ELSE norm[field] = orig[field]
        n == IF orig.kind = "BlockStmt" THEN Len(orig.statements) ELSE 0
        gains == /\ parentIsFunctionLike
                 /\ (n = 0 \/ ~isTerminal(orig.statements[n]))
    IN /\ norm.kind = orig.kind
       /\ DOMAIN norm = DOMAIN orig
       /\ IF orig.kind = "BlockStmt"
          THEN /\ Len(norm.statements) = n + (IF gains THEN 1 ELSE 0)
               /\ \A i \in 1..n :
                     Normalized(orig.statements[i], norm.statements[i], FALSE)
               /\ gains => norm.statements[n + 1] = ReturnNull
               /\ parentIsFunctionLike => isTerminal(norm)
          ELSE \A field \in DOMAIN orig :
                  \/ field \in {"kind", "name", "decl", "value", "op", "args",
                                "integration", "method", "initializer", "parameters"}
                     /\ norm[field] = orig[field]
                  \/ field \in {"body", "expr", "when", "then", "else", "tryBlock",
                                "catchClause", "finallyBlock", "variableDecl", "block",
                                "condition", "incrementor", "stmt", "left", "right",
                                "callback"}
                     /\ \/ field = "expr" /\ orig.kind = "NewExpr"
                           /\ norm[field] = orig[field]
                        \/ ~(field = "expr" /\ orig.kind = "NewExpr") /\ same(field)

\* C10: after normalization every body of a function-like node ends with a
\* terminal statement, `return null` being appended exactly to the bodies
\* that are empty or do not end with one; other blocks gain no statement;
\* normalizing the normalized function again changes nothing
C10_NormalizedBodies ==
    pc = "normalized" =>
        /\ Normalized(input.body, decl.body, TRUE)
        /\ NormalizeDecl(decl) = decl

\* C10 witness: a callback in a block that is no function body was
\* normalized: both the callback's body and the root body gained a
\* `return null`, the block between them did not
C10_Witness ==
    /\ pc = "normalized"
    /\ input.body.statements = <<IfStmt(VarC, BlockStmt(<<ExprStmt(
            CallbackCallExpr(VarXs, "forEach", BlockStmt(<<AssignX>>)))>>), NoNode)>>
    /\ decl.body.statements = <<IfStmt(VarC, BlockStmt(<<ExprStmt(
            CallbackCallExpr(VarXs, "forEach", BlockStmt(<<AssignX, ReturnNull>>)))>>),
            NoNode), ReturnNull>>

(***************************************************************************)
(* Properties of the compiled definition                                   *)
(***************************************************************************)

\* the states of a machine, each [name, state]
StatesOf(machine) == {machine.States[i] : i \in 1..Len(machine.States)}

StateNamesOf(machine) == {e.name : e \in StatesOf(machine)}

\* the state names a state refers to
Targets(state) ==
    (IF Has(state, "Next") THEN {state.Next} ELSE {})
    \cup (IF Has(state, "Default") THEN {state.Default} ELSE {})
    \cup (IF Has(state, "Choices")
          THEN {state.Choices[i].Next : i \in 1..Len(state.Choices)} ELSE {})
    \cup (IF Has(state, "Catch")
          THEN {state.Catch[i].Next : i \in 1..Len(state.Catch)} ELSE {})

\* the definition and the Iterator of every Map state in it
MachinesOf(machine) ==
    {machine} \cup {e.state.Iterator : e \in {m \in StatesOf(machine) : m.state.Type = "Map"}}

\* StartAt and every transition of the machine name a key of States
Resolved(machine) ==
    /\ machine.StartAt \in StateNamesOf(machine)
    /\ \A e \in StatesOf(machine) : Targets(e.state) \subseteq StateNamesOf(machine)

\* C1: in the definition of every function that compiled, and in every
\* nested Map Iterator, StartAt and every Next, Default, Choices[].Next and
\* Catch[].Next name a key of States: no local label (__catch, __BreakNext,
\* __ContinueNext) and no deferred-next sentinel is left
C1_TransitionsResolve ==
    pc = "done" => \A machine \in MachinesOf(definition) : Resolved(machine)

\* C1 does not hold: a machine with an unresolved transition is reachable
C1_Unresolved ==
    pc = "done" /\ \E machine \in MachinesOf(definition) : ~Resolved(machine)

RECURSIVE StmtPaths(_, _)
\* the paths of the statements, blocks and catch clauses below the node at path
StmtPaths(node, path) ==
    {path} \cup
    CASE node.kind = "BlockStmt" ->
           UNION {StmtPaths(node.statements[i], Append(path, ToString(i))) :
                    i \in 1..Len(node.statements)}
      [] node.kind \in {"ArrowFunctionExpr", "FunctionExpr", "FunctionDecl"} ->
           StmtPaths(node.body, Append(path, "body"))
      [] node.kind = "TryStmt" ->
           UNION {StmtPaths(node[f], Append(path, f)) :
                    f \in {g \in {"tryBlock", "catchClause", "finallyBlock"} :
                             IsNode(node[g])}}
      [] node.kind = "CatchClause" -> StmtPaths(node.block, Append(path, "block"))
      [] node.kind = "IfStmt" ->
           UNION {StmtPaths(node[f], Append(path, f)) :
                    f \in {g \in {"then", "else"} : IsNode(node[g])}}
      [] isLoop(node) -> StmtPaths(node.stmt, Append(path, "stmt"))
      [] OTHER -> {}

\* the paths of the statements of the given kind in the compiled function
PathsOfKind(kind) == {p \in StmtPaths(decl, <<>>) : NodeAt(decl, p).kind = kind}

\* the states of the definition made for the node at path in the given role
Made(path, role) ==
    {e \in StatesOf(definition) : e.state.origin = [at |-> path, role |-> role]}

\* the state named name
Named(name) == {e \in StatesOf(definition) : e.name = name}

\* the one state made for the throw statement at path is a Fail that
\* carries the name and the stringified cause of new Error("boom")
FailsWithCause(path) ==
    \E e \in Made(path, "ThrowStmt") :
        /\ Made(path, "ThrowStmt") = {e}
        /\ e.state.Type = "Fail"
        /\ e.state.Error = "Error"
        /\ e.state.Cause = "{\"message\":\"boom\"}"

\* the one state made for the throw statement at path is a Pass with the
\* cause as its Result that leads to the __catch state of the try statement
\* of the catch clause at handler, which leads into that catch clause
PassesToCatch(path, handler) ==
    \E e \in Made(path, "ThrowStmt") :
        /\ Made(path, "ThrowStmt") = {e}
        /\ e.state.Type = "Pass"
        /\ e.state.Result = JObj(<<[k |-> "message", v |-> JStr("boom")]>>)
        /\ Has(e.state, "Next")
        /\ \E label \in Made(Parent(handler), "try.__catch") :
              /\ label.name = e.state.Next
              /\ Has(label.state, "Next")
              /\ \E first \in Named(label.state.Next) :
                    IsPrefix(handler, first.state.origin.at)

\* the handler of the node at path is the catch clause of the innermost
\* try statement around it, inside the same function
CaughtByInnermostTry(path) ==
    LET handler == NodeThrow(decl, path)
        tries == {t \in StmtPaths(decl, <<>>) :
                    /\ NodeAt(decl, t).kind = "TryStmt"
                    /\ IsPrefix(Append(t, "tryBlock"), path)}
    IN /\ handler # <<"none">>
       /\ handler[Len(handler)] = "catchClause"
       /\ Parent(handler) \in tries
       /\ \A t \in tries : Len(t) <= Len(Parent(handler))
       /\ IsPrefix(FindFunction(decl, path), handler)

\* C2: a throw statement that no try handles lowers to a Fail with the
\* error name and the JSON-stringified cause; a throw statement in the try
\* block of a try statement with a catch clause in the same function lowers
\* to a Pass (Result = cause) whose Next resolves to the catch of that
\* innermost try statement, never to the catch of an outer one
C2_ThrowRouting ==
    pc = "done" =>
        \A path \in PathsOfKind("ThrowStmt") :
            /\ NodeThrow(decl, path) = <<"none">> => FailsWithCause(path)
            /\ CaughtByInnermostTry(path) =>
                  PassesToCatch(path, NodeThrow(decl, path))

\* a throw statement caught by the inner of two try statements that both
\* have a catch clause has been compiled
C2_Witness ==
    /\ pc = "done"
    /\ \E path \in PathsOfKind("ThrowStmt") :
          /\ CaughtByInnermostTry(path)
          /\ PassesToCatch(path, NodeThrow(decl, path))
          /\ \E outer \in PathsOfKind("TryStmt") :
                /\ IsNode(NodeAt(decl, outer).catchClause)
                /\ IsPrefix(Append(outer, "tryBlock"), Parent(NodeThrow(decl, path)))

\* the one state made for the break or continue statement at path is a Pass
\* that leads to the state that the loop at loop made for the label
LeadsToLabel(path, kind, loop, label) ==
    \E e \in Made(path, kind) :
        /\ Made(path, kind) = {e}
        /\ e.state.Type = "Pass"
        /\ Has(e.state, "Next")
        /\ \E target \in Made(loop, label) :
              Made(loop, label) = {target} /\ target.name = e.state.Next

\* the __BreakNext state of the loop leads out of it: to the exit state of
\* a for, for-of or for-in loop, and for a while or do loop to the successor
\* of the loop, a state that is not made for anything inside the loop
BreakLeavesLoop(loop) ==
    \E label \in Made(loop, BreakNext) :
        IF NodeAt(decl, loop).kind \in {"ForStmt", "ForOfStmt", "ForInStmt"}
        THEN /\ Has(label.state, "Next")
             /\ \E exit \in Made(loop, "exit") : exit.name = label.state.Next
        ELSE \/ Has(label.state, "End") /\ ~Has(label.state, "Next")
             \/ /\ Has(label.state, "Next")
                /\ \E after \in Named(label.state.Next) :
                      ~IsPrefix(loop, after.state.origin.at)

\* C5: with loops nested to any depth, a break statement leads to the
\* __BreakNext state of its innermost enclosing loop, and from there to the
\* exit or the successor of that loop, and a continue statement to the
\* __ContinueNext state of that loop: never to a state of an outer loop
\* and never to a state outside all loops
C5_BreakContinueInnermost ==
    pc = "done" =>
        /\ \A path \in PathsOfKind("BreakStmt") :
              /\ LeadsToLabel(path, "BreakStmt", FindLoop(decl, path), BreakNext)
              /\ BreakLeavesLoop(FindLoop(decl, path))
        /\ \A path \in PathsOfKind("ContinueStmt") :
              LeadsToLabel(path, "ContinueStmt", FindLoop(decl, path), ContinueNext)

\* a break statement inside the inner of two nested loops has been compiled
C5_Witness ==
    /\ pc = "done"
    /\ \E path \in PathsOfKind("BreakStmt") :
          /\ FindLoop(decl, FindLoop(decl, path)) # <<"none">>
          /\ LeadsToLabel(path, "BreakStmt", FindLoop(decl, path), BreakNext)
          /\ BreakLeavesLoop(FindLoop(decl, path))

\* how many of the four ways to go on a state has
WaysOn(e) ==
    LET ways == <<Has(e.state, "End") /\ e.state.End,
                  Has(e.state, "Next") /\ e.state.Next \in StateNamesOf(definition),
                  e.state.Type \in {"Fail", "Succeed"},
                  e.state.Type = "Choice" /\ Has(e.state, "Default")>>
    IN Cardinality({i \in 1..4 : ways[i]})

\* the statement at path is a statement of the body of the function, not
\* nested in another statement
AtTopLevel(path) == Len(path) = 2

\* C6: in every compiled definition each state has exactly one of End: true,
\* a Next that names a defined state, Type Fail or Succeed, or Type Choice
\* with a Default; and a return statement at the top level of the function
\* body yields a Pass with End: true and ResultPath $
C6_OneWayOn ==
    pc = "done" =>
        /\ \A e \in StatesOf(definition) : WaysOn(e) = 1
        /\ \A path \in PathsOfKind("ReturnStmt") :
              AtTopLevel(path) =>
                \E e \in Made(path, "ReturnStmt") :
                    /\ e.state.Type = "Pass"
                    /\ Has(e.state, "End") /\ e.state.End
                    /\ e.state.ResultPath = "$"

\* C6 does not hold: a compiled definition has a state with no way on
C6_NoWayOn == pc = "done" /\ \E e \in StatesOf(definition) : WaysOn(e) = 0

(***************************************************************************)
(* Properties of the executions of the compiled definition                 *)
(***************************************************************************)

\* the positions in the trace of the states made for the nodes at or below
\* path
Ran(path) == {i \in DOMAIN trace : IsPrefix(path, trace[i].origin.at)}

\* the try statements with a finally block whose try block or catch clause
\* holds the statement at path
TriesWithFinallyAround(path) ==
    {t \in {Ancestors(path)[i] : i \in 1..Len(path)} :
        /\ NodeAt(decl, t).kind = "TryStmt"
        /\ IsNode(NodeAt(decl, t).finallyBlock)
        /\ \/ IsPrefix(Append(t, "tryBlock"), path)
           \/ IsPrefix(Append(t, "catchClause"), path)}

\* the positions in the trace of the Pass states of the return statements
\* that lie in a try block or catch clause of a try statement with finally
ReturnsBeforeFinally ==
    {i \in DOMAIN trace :
        /\ trace[i].origin.role = "ReturnStmt"
        /\ TriesWithFinallyAround(trace[i].origin.at) # {}}

\* C3: when a return statement inside the try block or the catch clause of a
\* try statement with a finally block executes, the states of the finally
\* block run after the return Pass and before the execution produces the
\* result of the function: the return Pass does not end the machine
C3_ReturnRunsFinally ==
    status = "succeeded" =>
        \A i \in ReturnsBeforeFinally :
            \A t \in TriesWithFinallyAround(trace[i].origin.at) :
                \E j \in Ran(Append(t, "finallyBlock")) : j > i

\* C3 does not hold: an execution has produced the value of a return in a
\* try with finally and no state of the finally block has run
C3_FinallySkipped ==
    /\ status = "succeeded"
    /\ outcome = JNum(1)
    /\ \E i \in ReturnsBeforeFinally :
          \A t \in TriesWithFinallyAround(trace[i].origin.at) :
              Ran(Append(t, "finallyBlock")) = {}

\* the function executed is one of LogicalFunctions and has been compiled
LogicalCompiled == pc = "done" /\ input \in LogicalFunctions

\* the value of the left operand of the logical expression in the
\* execution, Nothing when it is the unassigned variable
LeftValue ==
    IF NodeAt(decl, LogicalPath).left = VarU THEN Nothing ELSE executionInput

\* the semantics of the operator select the right operand
SelectsRight ==
    LET op == NodeAt(decl, LogicalPath).op
    IN CASE op = "&&" -> ~IsNothing(LeftValue) /\ JTruthy(LeftValue)
         [] op = "||" -> IsNothing(LeftValue) \/ ~JTruthy(LeftValue)
         [] OTHER -> IsNothing(LeftValue) \/ LeftValue.t = "null"

\* the value of the operand selected: the right operand is (x = 1)
Selected == IF SelectsRight THEN JNum(1) ELSE LeftValue

\* the state of the return statement: it reads the output slot of the
\* logical expression
ReturnOfLogical ==
    CHOOSE e \in StatesOf(definition) :
        e.state.origin = [at |-> Parent(LogicalPath), role |-> "ReturnStmt"]

\* what the output slot of the logical expression holds
SlotValue ==
    LET slot == ReturnOfLogical.state.InputPath
    IN IF slot \in DOMAIN data THEN data[slot] ELSE Nothing

RouteDepth == 3

\* the callbacks: of array methods, and of $SFN.map and $SFN.forEach, whose
\* callback is the body of a Map state
ClosureFrames ==
    {"callback", "xs.map", "xs.filter", "xs.some", "$SFN.map", "$SFN.forEach"}

HandlerFrames ==
    {"tryCatch.try", "tryFinally.try", "tryCatchFinally.try", "tryCatchFinally.catch"}

\* the integrations called: they return a Task, a bare output, a Pass, a
\* Map, a Parallel, and a sub-state with a sub-state in it
IntegrationNames == {"task", "output", "pass", "map", "parallel", "nested"}

RouteFunctions ==
    {FunctionLike(<<ParameterDecl("c", DeclC)>>,
                  BlockStmt(BuildBody(frames, 1, leaf, fill))) :
        frames \in UNION {[1..k -> ClosureFrames \cup HandlerFrames] : k \in 1..RouteDepth},
        leaf \in {<<ThrowBoom>>} \cup {<<ExprStmt(IntegrationCallExpr(name))>> :
                                          name \in IntegrationNames},
        fill \in Fills}

RECURSIVE ThrowingPaths(_, _)
\* the paths of the throw statements and of the calls of an integration
\* below the node at path, those inside callbacks included
ThrowingPaths(node, path) ==
    CASE node.kind = "ThrowStmt" -> {path}
      [] node.kind = "CallExpr" ->
           IF Has(node, "integration") THEN {path}
           ELSE IF Has(node, "callback")
           THEN ThrowingPaths(node.callback, Append(path, "callback"))
           ELSE {}
      [] node.kind = "ExprStmt" -> ThrowingPaths(node.expr, Append(path, "expr"))
      [] node.kind = "BlockStmt" ->
           UNION {ThrowingPaths(node.statements[i], Append(path, ToString(i))) :
                    i \in 1..Len(node.statements)}
      [] node.kind \in {"ArrowFunctionExpr", "FunctionExpr", "FunctionDecl"} ->
           ThrowingPaths(node.body, Append(path, "body"))
      [] node.kind = "TryStmt" ->
           UNION {ThrowingPaths(node[f], Append(path, f)) :
                    f \in {g \in {"tryBlock", "catchClause", "finallyBlock"} :
                             IsNode(node[g])}}
      [] node.kind = "CatchClause" -> ThrowingPaths(node.block, Append(path, "block"))
      [] OTHER -> {}

InitRoute ==
    /\ StateNamesIdle
    /\ VariableNamesIdle
    /\ input \in RouteFunctions
    /\ decl = NoNode
    /\ definition = Nothing
    /\ heapCounter = 0
    /\ thrown = ""
    /\ pc = "constructor"
    /\ ExecutionIdle

\* the node at path of the normalized function is lowered on its own
LowerAt(root, path) ==
    /\ decl' = root
    /\ definition' = [site |-> path,
                      lowered |-> evalStmt(root, path, FunctionReturnPass,
                                           NewCompilation).r]
    /\ pc' = "routed"
    /\ UNCHANGED <<stateNameVars, variableNameVars, input, heapCounter, thrown,
                   executionVars>>

\* evalStmt(stmt) of a throw statement
LowerThrow ==
    /\ pc = "constructor"
    /\ \E path \in ThrowingPaths(NormalizeDecl(input), <<>>) :
          /\ NodeAt(NormalizeDecl(input), path).kind = "ThrowStmt"
          /\ LowerAt(NormalizeDecl(input), path)

\* eval(expr) of a call of an integration
LowerCall ==
    /\ pc = "constructor"
    /\ \E path \in ThrowingPaths(NormalizeDecl(input), <<>>) :
          /\ NodeAt(NormalizeDecl(input), path).kind = "CallExpr"
          /\ LowerAt(NormalizeDecl(input), path)

NextRoute == LowerThrow \/ LowerCall

SpecRoute == InitRoute /\ [][NextRoute]_vars

(***************************************************************************)
(* Properties of the error router                                          *)
(***************************************************************************)

\* the functions around the node at path that lie inside the try statement
\* of its handler: the closures an error edge to the handler would cross
ClosuresCrossed(root, path) ==
    LET handler == NodeThrow(root, path)
    IN IF handler = <<"none">> THEN {}
       ELSE {c \in {Ancestors(path)[i] : i \in 1..Len(path)} :
                /\ isFunctionLike(NodeAt(root, c))
                /\ ~IsPrefix(c, handler)}

\* the handler of the node at path lies outside the nearest function
\* around the node
HandlerOutsideClosure(root, path) ==
    /\ NodeThrow(root, path) # <<"none">>
    /\ FindFunction(root, path) \in ClosuresCrossed(root, path)

RECURSIVE NodeStatesOf(_)
\* the states of a graph, those of its sub-states included
NodeStatesOf(graph) ==
    IF isSubState(graph)
    THEN UNION {NodeStatesOf(graph.states[i].state) : i \in 1..Len(graph.states)}
    ELSE IF isNodeState(graph) THEN {graph} ELSE {}

\* the lowered node ends the machine: a throw statement is a Fail, no task
\* has a Catch, and nothing leads to __catch
EndsMachine(lowered) ==
    \A state \in NodeStatesOf(lowered) :
        /\ state.origin.role = "ThrowStmt" => state.Type = "Fail"
        /\ ~Has(state, "Catch")
        /\ CatchState \notin Targets(state)

\* C11: a throwing node whose handler lies outside the nearest function
\* closure around the node gets no transition from throw(): the throw
\* statement lowers to a Fail, the task of an integration gets no Catch,
\* and nothing leads to __catch
C11_NoEdgeAcrossClosure ==
    pc = "routed" /\ HandlerOutsideClosure(decl, definition.site) =>
        /\ IsNothing(throw(decl, definition.site))
        /\ EndsMachine(definition.lowered)

\* the callback of a Map state ($SFN.map, $SFN.forEach) lies between the
\* node at path and its handler
MapClosureCrossed(root, path) ==
    \E c \in ClosuresCrossed(root, path) :
        NodeAt(root, Parent(c)).expr.kind = "ReferenceExpr"

\* C11 does not hold: the node is in the callback of xs.map, which is in
\* the callback of $SFN.map, the handler is outside both, and the lowered
\* node leads to __catch across the Map state
C11_EdgeAcrossMap ==
    /\ pc = "routed"
    /\ HandlerOutsideClosure(decl, definition.site)
    /\ MapClosureCrossed(decl, definition.site)
    /\ ~IsNothing(throw(decl, definition.site))
    /\ \E state \in NodeStatesOf(definition.lowered) : CatchState \in Targets(state)

\* the Catch that leads to the handler throw() found
HandlerCatch(throwOrPass) ==
    <<[ErrorEquals |-> <<"States.ALL">>,
       Next |-> throwOrPass.Next,
       ResultPath |-> throwOrPass.ResultPath]>>

RECURSIVE CatchAdded(_, _, _)
\* after is before with the Catch on every Task, Map and Parallel state,
\* at any depth, and with nothing else changed
CatchAdded(before, after, catch) ==
    IF isSubState(before)
    THEN /\ isSubState(after)
         /\ Without(after, {"states"}) = Without(before, {"states"})
         /\ Len(after.states) = Len(before.states)
         /\ \A i \in 1..Len(before.states) :
               /\ after.states[i].key = before.states[i].key
               /\ CatchAdded(before.states[i].state, after.states[i].state, catch)
    ELSE IF before.Type \in {"Task", "Map", "Parallel"}
    THEN /\ Has(after, "Catch")
         /\ after.Catch = catch
         /\ Without(after, {"Catch"}) = Without(before, {"Catch"})
    ELSE after = before

\* the call of an integration that was lowered
CallLowered ==
    /\ pc = "routed"
    /\ NodeAt(decl, definition.site).kind = "CallExpr"

\* what the integration of the call that was lowered returned
HookReturned == IntegrationStates(decl, definition.site, NewCompilation).r

\* C15: when the call of an integration has a handler, every Task, Map and
\* Parallel state of the graph the integration returned, at any depth, has
\* the Catch of States.ALL with the Next and ResultPath of throw(), and the
\* other states, the structure of the graph and its output are unchanged;
\* without a handler, or when the integration returned a bare output, what
\* it returned is the result
C15_CatchOnEveryTask ==
    CallLowered =>
        IF IsNothing(throw(decl, definition.site)) \/ isAslGraphOutput(HookReturned)
        THEN definition.lowered = HookReturned
        ELSE CatchAdded(HookReturned, definition.lowered,
                        HandlerCatch(throw(decl, definition.site)))

\* C15 witness: the integration returned a sub-state, the call has a
\* handler with a variable, and the Map state in the sub-state of the
\* sub-state has the Catch that writes to the slot of the handler
C15_Witness ==
    /\ CallLowered
    /\ isSubState(HookReturned)
    /\ ~IsNothing(throw(decl, definition.site))
    /\ throw(decl, definition.site).ResultPath # NoResultPath
    /\ LET each == definition.lowered.states[2].state.states[2].state
       IN /\ each.Type = "Map"
          /\ ~Has(HookReturned.states[2].state.states[2].state, "Catch")
          /\ each.Catch = HandlerCatch(throw(decl, definition.site))

(***************************************************************************)
(* Specification of the execution of try statements: the try block, the    *)
(* catch clause and the finally block throw, call a task or assign; the    *)
(* statement stands alone, in the try block of another try statement, or   *)
(* in a loop                                                               *)
(***************************************************************************)

VarZ == Identifier("z", DeclZ)

ThrowBang == ThrowStmt(NewErrorExpr("bang"))

\* c = 0
AssignC == ExprStmt(BinaryExpr(VarC, "=", NumberLiteralExpr(0)))

\* y = 2: the statement after the try statement
AfterTry == ExprStmt(BinaryExpr(VarY, "=", NumberLiteralExpr(2)))

\* if (z) { c = 0 } else { throw new Error("bang") }
ThrowUnlessZ == IfStmt(VarZ, BlockStmt(<<AssignC>>), BlockStmt(<<ThrowBang>>))

ThrowingTryBlocks == {<<ThrowBoom>>, <<CallTask>>, <<AssignX>>, <<CallTask, ThrowBoom>>}

ThrowingCatchClauses ==
    {NoNode} \cup
    {CatchClause(variableDecl, BlockStmt(block)) :
        variableDecl \in {NoNode, VariableDecl("err", DeclErr)},
        block \in {<<ThrowBang>>, <<CallTask>>, <<AssignX>>, <<ThrowUnlessZ>>}}

ThrowingTryStmts ==
    {TryStmt(BlockStmt(parts[1]), parts[2], parts[3]) :
        parts \in {p \in ThrowingTryBlocks \X ThrowingCatchClauses \X FinallyBlocks :
                      IsNode(p[2]) \/ IsNode(p[3])}}

\* where the try statement stands
Surroundings == {"alone", "try", "tryWithVariable", "while"}

\* the body of the function: the try statement and the statement after it,
\* in their surroundings
Surrounded(stmt, surroundings) ==
    LET block == BlockStmt(<<stmt, AfterTry>>)
    IN CASE surroundings = "alone" -> block
         [] surroundings = "try" ->
              BlockStmt(<<TryStmt(block, CatchClause(NoNode, BlockStmt(<<>>)), NoNode)>>)
         [] surroundings = "tryWithVariable" ->
              BlockStmt(<<TryStmt(block,
                                  CatchClause(VariableDecl("e", "e"), BlockStmt(<<>>)),
                                  NoNode)>>)
         [] surroundings = "while" ->
              BlockStmt(<<WhileStmt(VarC,
                            BlockStmt(<<TryStmt(block, CatchClause(NoNode, BlockStmt(<<>>)),
                                                NoNode)>>))>>)

\* the path of the try statement in its surroundings
SurroundedPath(surroundings) ==
    CASE surroundings = "alone" -> <<"body", "1">>
      [] surroundings \in {"try", "tryWithVariable"} -> <<"body", "1", "tryBlock", "1">>
      [] surroundings = "while" -> <<"body", "1", "stmt", "1", "tryBlock", "1">>

ThrowingFunctions ==
    {FunctionLike(<<ParameterDecl("c", DeclC)>>, Surrounded(stmt, surroundings)) :
        stmt \in ThrowingTryStmts, surroundings \in Surroundings}

InitTry ==
    /\ StateNamesIdle
    /\ VariableNamesIdle
    /\ input \in ThrowingFunctions
    /\ decl = NoNode
    /\ definition = Nothing
    /\ heapCounter = 0
    /\ thrown = ""
    /\ pc = "constructor"
    /\ ExecutionIdle

\* the inputs of the executions: a truthy and a falsy value of c
TruthyAndFalsy == {JBool(TRUE), JNum(0)}

StartTry == StartExecutionOf(TruthyAndFalsy)

NextTry ==
    \/ Compile
    \/ StartTry
    \/ StepPass
    \/ StepChoice
    \/ StepFail
    \/ StepTask
    \/ StepTaskFails
    \/ StepMissing

SpecTry == InitTry /\ [][NextTry]_vars

(***************************************************************************)
(* Properties of the execution of try statements                           *)
(***************************************************************************)

\* the try statements with a catch clause that can throw and a finally
\* block that is not terminal
ReThrowingTries ==
    {t \in PathsOfKind("TryStmt") :
        LET stmt == NodeAt(decl, t)
        IN /\ IsNode(stmt.catchClause)
           /\ canThrow(stmt.catchClause)
           /\ IsNode(stmt.finallyBlock)
           /\ ~isTerminal(stmt.finallyBlock)}

\* the slot of the finally block of the try statement at t
FinallySlot(t) == "$." \o GeneratedName(Append(t, "finallyBlock"))

\* the i-th state entered was made for the node at path in the role
Entered(i, path, role) == trace[i].origin = [at |-> path, role |-> role]

\* the i-th state entered was made for a node at or below path
EnteredBelow(i, path) == IsPrefix(path, trace[i].origin.at)

\* before the i-th state was entered, the catch clause of the try statement
\* at t raised an error, and the try block was not entered again since
RaisedInCatch(t, i) ==
    \E k \in 1..(i - 1) :
        /\ Entered(k, t, "catch.__catch")
        /\ \A m \in k..i : ~EnteredBelow(m, Append(t, "tryBlock"))

\* the state entered after the i-th one leads to the handler of the node
\* at path, or the execution failed with the error when there is none
ReThrown(i, path) ==
    IF IsNothing(throw(decl, path))
    THEN /\ i + 1 = Len(trace) => status \in {"running", "failed"}
         /\ status = "failed" /\ i + 1 = Len(trace) =>
               outcome.Error = "ReThrowFromFinally"
    ELSE i + 2 <= Len(trace) =>
            \/ Entered(i + 2, Parent(NodeThrow(decl, path)), "try.__catch")
            \/ Entered(i + 2, Parent(NodeThrow(decl, path)), "catch.__catch")

\* C12: in a try statement whose catch clause can throw and whose finally
\* block is not terminal, an error raised in the catch clause is stashed in
\* the slot of the finally block and the finally block is entered; at the
\* end of the finally block the exit Choice throws the error again, to the
\* enclosing handler or as the Fail ReThrowFromFinally; when the finally
\* block was entered without an error of the catch clause, the execution
\* goes on with the statement after the try statement
C12_FinallyReThrows ==
    pc = "done" =>
        \A t \in ReThrowingTries : \A i \in 1..Len(trace) :
            /\ Entered(i, t, "catch.__catch") =>
                  /\ i = Len(trace) /\ status = "running" =>
                        Present(FinallySlot(t), data)
                  /\ i < Len(trace) => EnteredBelow(i + 1, Append(t, "finallyBlock"))
            /\ Entered(i, t, "finally.exit") /\ i < Len(trace) =>
                  IF RaisedInCatch(t, i)
                  THEN /\ Entered(i + 1, t, "finally.throw")
                       /\ ReThrown(i, Append(t, "finallyBlock"))
                  ELSE EnteredBelow(i + 1, Append(Parent(t), "2"))

\* C12 does not hold: the try statement was entered a second time, in the
\* next iteration of the loop around it, its catch clause raised no error
\* this time, and the exit Choice of the finally block threw the error of
\* the first time again
C12_StaleReThrow ==
    /\ pc = "done"
    /\ \E t \in ReThrowingTries : \E i \in 1..(Len(trace) - 1) :
          /\ Entered(i, t, "finally.exit")
          /\ ~RaisedInCatch(t, i)
          /\ Entered(i + 1, t, "finally.throw")

\* the try statements with a finally block and no catch clause
FinallyOnlyTries ==
    {t \in PathsOfKind("TryStmt") :
        /\ ~IsNode(NodeAt(decl, t).catchClause)
        /\ IsNode(NodeAt(decl, t).finallyBlock)}

\* the states made for the throw statements and the tasks of the try block
\* of the try statement at t whose handler is the finally block of t
Throwers(t) ==
    {e \in StatesOf(definition) :
        /\ e.state.origin.role \in {"ThrowStmt", "task"}
        /\ IsPrefix(Append(t, "tryBlock"), e.state.origin.at)
        /\ NodeThrow(decl, e.state.origin.at) = Append(t, "finallyBlock")}

\* the names of the states the error of the state goes to
ErrorTargets(state) ==
    IF state.Type = "Task"
    THEN IF Has(state, "Catch")
         THEN {state.Catch[i].Next : i \in 1..Len(state.Catch)} ELSE {}
    ELSE IF Has(state, "Next") THEN {state.Next} ELSE {}

\* C13: in a try statement with a finally block and no catch clause, the
\* error of a throw statement or of a task of the try block goes to a state
\* that this try statement defines, and the execution of such a throw
\* statement is followed by the finally block of the statement, not by the
\* catch clause of an enclosing try statement and not by a missing state
C13_ThrowEntersFinally ==
    pc = "done" =>
        \A t \in FinallyOnlyTries :
            /\ \A e \in Throwers(t) :
                  /\ ErrorTargets(e.state) # {}
                  /\ \A name \in ErrorTargets(e.state) :
                        \E target \in Named(name) : IsPrefix(t, target.state.origin.at)
            /\ \A i \in 1..Len(trace) :
                  (\E e \in Throwers(t) : e.name = trace[i].name /\ e.state.Type = "Pass") =>
                      /\ i < Len(trace) => EnteredBelow(i + 1, t)
                      /\ i = Len(trace) => status # "failed"

\* C13 does not hold: the throw statement in the try block of a try
\* statement with a finally block and no catch clause was executed, the
\* catch clause of the enclosing try statement came next, and the finally
\* block was not entered
C13_FinallySkipped ==
    /\ pc = "done"
    /\ \E t \in FinallyOnlyTries : \E i \in 1..(Len(trace) - 1) :
          /\ \E e \in Throwers(t) : e.name = trace[i].name /\ e.state.Type = "Pass"
          /\ Entered(i + 1, Parent(Parent(t)), "try.__catch")
          /\ \A m \in 1..Len(trace) : ~EnteredBelow(m, Append(t, "finallyBlock"))
          /\ status = "succeeded"

\* the try statements whose try block holds a task and whose catch clause
\* declares a variable: their catch clause starts with the pre-amble
ParsedTries ==
    {t \in PathsOfKind("TryStmt") :
        LET stmt == NodeAt(decl, t)
        IN /\ IsNode(stmt.catchClause)
           /\ IsNode(stmt.catchClause.variableDecl)
           /\ hasTask(stmt.tryBlock)}

\* the i-th state entered is a throw statement or a task of the try block
\* of the try statement at t, whose handler is the catch clause of t
RaisedInTry(t, i) ==
    /\ trace[i].origin.role \in {"ThrowStmt", "task"}
    /\ IsPrefix(Append(t, "tryBlock"), trace[i].origin.at)
    /\ NodeThrow(decl, trace[i].origin.at) = Append(t, "catchClause")

\* the cause of the error the i-th state entered raised: the object of the
\* throw statement, the parsed Cause of the failed task
CauseRaised(i) ==
    IF trace[i].origin.role = "ThrowStmt"
    THEN JObj(<<[k |-> "message",
                 v |-> LiteralJson(NodeAt(decl, trace[i].origin.at).expr.args[1])]>>)
    ELSE ParseJson(TaskError.members[2].v.v)

\* the document holds the value at path
Holds(path, value) ==
    \A leaf \in Leaves(path, value) : leaf[1] \in DOMAIN data /\ data[leaf[1]] = leaf[2]

\* C14: when the try block holds a task and the catch clause declares a
\* variable, then after an error of the try block, of a task or of a throw
\* statement, the pre-amble of the catch clause runs and does not fail, and
\* the catch variable then holds the cause of the error
C14_CatchVariableHoldsCause ==
    pc = "done" =>
        \A t \in ParsedTries : \A i \in 1..(Len(trace) - 1) :
            RaisedInTry(t, i) /\ Entered(i + 1, t, "try.__catch") =>
                LET last == Len(trace)
                    catch == Append(t, "catchClause")
                    variable == "$." \o NodeAt(decl, catch).variableDecl.name
                IN /\ last >= i + 2 => Entered(i + 2, catch, "catch.parse")
                   /\ last >= i + 3 => Entered(i + 3, catch, "catch.parsed")
                   /\ last >= i + 4 => Entered(i + 4, Append(catch, "variableDecl"), "declare")
                   /\ last <= i + 4 => status = "running"
                   /\ last = i + 4 => Holds(variable, CauseRaised(i))

\* C14 does not hold: a task of the try block succeeded, the throw
\* statement after it raised its error, and the pre-amble of the catch
\* clause failed the execution
C14_PreambleFails ==
    /\ pc = "done"
    /\ status = "failed"
    /\ outcome = [Error |-> "States.Runtime"]
    /\ \E t \in ParsedTries :
          LET last == Len(trace)
          IN /\ last > 3
             /\ Entered(last, Append(t, "catchClause"), "catch.parse")
             /\ Entered(last - 1, t, "try.__catch")
             /\ RaisedInTry(t, last - 2)
             /\ trace[last - 2].origin.role = "ThrowStmt"
             /\ trace[last - 3].origin.role = "task"

(***************************************************************************)
(* Specification of the execution of loops: a for-of loop over the array   *)
(* the function is given, and for, while and do loops whose condition is   *)
(* the parameter c                                                         *)
(***************************************************************************)

\* the longest array iterated
MaxItems == 3

DeclV == "v"

VarV == Identifier("v", DeclV)

\* y = v
AssignYFromV == ExprStmt(BinaryExpr(VarY, "=", VarV))

\* xs = 0
AssignXs == ExprStmt(BinaryExpr(VarXs, "=", NumberLiteralExpr(0)))

\* the bodies of the for-of loops
ForOfBodies ==
    {<<AssignYFromV>>, <<AssignYFromV, AssignXs>>, <<ContinueStmt>>, <<BreakStmt>>,
     <<AssignYFromV, BreakStmt>>,
     <<IfStmt(VarV, BlockStmt(<<ContinueStmt>>), NoNode), AssignYFromV>>}

\* (xs) => { for (const v of xs) { ... } z = 3 }
ForOfFunctions ==
    {FunctionLike(<<ParameterDecl("xs", DeclXs)>>,
                  BlockStmt(<<ForOfStmt(VariableDecl("v", DeclV), VarXs, BlockStmt(body)),
                              AssignZ>>)) :
        body \in ForOfBodies}

\* the bodies of the other loops
LoopBodies ==
    {<<AssignC>>, <<ContinueStmt>>, <<BreakStmt>>, <<AfterTry>>, <<AfterTry, AssignC>>,
     <<AssignC, ContinueStmt>>}

\* a condition that needs no state, and one that needs a state: (x = c)
LoopConditions == {VarC, BinaryExpr(VarX, "=", VarC)}

\* c = 0 as an expression: the incrementor that ends the loop
ClearC == BinaryExpr(VarC, "=", NumberLiteralExpr(0))

LoopStmts ==
    {ForStmt(BinaryExpr(VarX, "=", NumberLiteralExpr(0)), condition, incrementor,
             BlockStmt(body)) :
        condition \in LoopConditions, incrementor \in {NoNode, ClearC},
        body \in LoopBodies}
    \cup {WhileStmt(condition, BlockStmt(body)) :
            condition \in LoopConditions, body \in LoopBodies}
    \cup {DoStmt(BlockStmt(body), condition) :
            condition \in LoopConditions, body \in LoopBodies}

\* (c) => { loop; z = 3 }
LoopFunctions ==
    {FunctionLike(<<ParameterDecl("c", DeclC)>>, BlockStmt(<<stmt, AssignZ>>)) :
        stmt \in LoopStmts}

\* the place of the loop in the functions
LoopPath == <<"body", "1">>

\* the arrays iterated: of 0 to MaxItems numbers
Arrays ==
    {JArr([i \in 1..n |-> JNum(items[i])]) :
        items \in {<<2, 0, 1>>}, n \in 0..MaxItems}
    \cup {JArr(<<JNum(1), JNum(1)>>)}

InitLoop ==
    /\ StateNamesIdle
    /\ VariableNamesIdle
    /\ input \in ForOfFunctions \cup LoopFunctions
    /\ decl = NoNode
    /\ definition = Nothing
    /\ heapCounter = 0
    /\ thrown = ""
    /\ pc = "constructor"
    /\ ExecutionIdle

\* the execution of a for-of function is given an array, of another one a
\* truthy or a falsy value
StartLoop ==
    StartExecutionOf(IF input.parameters[1].name = "xs" THEN Arrays ELSE TruthyAndFalsy)

NextLoop == Compile \/ StartLoop \/ StepPass \/ StepChoice

SpecLoop == InitLoop /\ [][NextLoop]_vars

\* ---------------------------------------------------------------------
\* Properties of the loops
\* ---------------------------------------------------------------------

\* the statements of the body of the loop of the function
LoopBody == input.body.statements[1].stmt.statements

\* the function iterates an array with for-of, and was started
ForOfStarted == input \in ForOfFunctions /\ status # "idle"

\* the elements of the array the execution was given
Items == executionInput.items

\* the entries of the trace at which the loop variable was bound: the
\* iterations of the for-of loop so far
Iterations == {i \in 1..Len(trace) : Entered(i, Append(LoopPath, "initializer"), "declare")}

\* the entries of the trace made for the loop itself in the given role
LoopEntries(role) == {i \in 1..Len(trace) : Entered(i, LoopPath, role)}

\* the i-th state entered is a statement of the given kind of the loop body
EnteredStmt(i, kind) == EnteredBelow(i, LoopPath) /\ trace[i].origin.role = kind

\* the state entered last was made for the node at path in the given role
EnteredLast(path, role) == Len(trace) > 0 /\ Entered(Len(trace), path, role)

\* C16: a for-of loop over an array of n elements whose body does not break
\* runs the body n times, the loop variable bound to the elements in order,
\* and then reaches exit; continue goes on to tail and break to exit; the
\* loop consumes a copy of the array, so that an assignment to the iterated
\* variable in the body leaves the number of iterations alone
C16_ForOfIteratesInOrder ==
    ForOfStarted =>
        /\ status # "failed"
        /\ Len(trace) < MaxSteps
        /\ \A i \in 1..(Len(trace) - 2) :
              /\ EnteredStmt(i, "ContinueStmt") =>
                    /\ Entered(i + 1, LoopPath, ContinueNext)
                    /\ Entered(i + 2, LoopPath, "tail")
              /\ EnteredStmt(i, "BreakStmt") =>
                    /\ Entered(i + 1, LoopPath, BreakNext)
                    /\ Entered(i + 2, LoopPath, "exit")
        /\ \A i \in LoopEntries("tail") :
              i < Len(trace) => Entered(i + 1, LoopPath, "check")
        /\ status = "succeeded" => Cardinality(LoopEntries("exit")) = 1
        /\ \A i \in Iterations : \A e \in LoopEntries("exit") : i < e
        /\ (\A i \in 1..Len(LoopBody) : LoopBody[i] # BreakStmt) =>
              /\ Cardinality(Iterations) <= Len(Items)
              /\ status = "succeeded" => Cardinality(Iterations) = Len(Items)
              /\ EnteredLast(Append(LoopPath, "initializer"), "declare") =>
                    Holds("$.v", Items[Cardinality(Iterations)])
              /\ \A s \in 1..Len(LoopBody) :
                    /\ LoopBody[s] = AssignYFromV
                    /\ EnteredLast(LoopPath \o <<"stmt", ToString(s), "expr">>, "assign")
                    => Holds("$.y", Items[Cardinality(Iterations)])

\* the loop over three elements, the body of which assigns the iterated
\* variable, has run three times and the function has returned
C16_Witness ==
    /\ ForOfStarted
    /\ status = "succeeded"
    /\ LoopBody = <<AssignYFromV, AssignXs>>
    /\ Len(Items) = MaxItems
    /\ Cardinality(Iterations) = MaxItems

\* the loop statement of the function
LoopStmt == input.body.statements[1]

\* the function holds a loop of the given kinds, and was started
LoopStarted(kinds) ==
    input \in LoopFunctions /\ LoopStmt.kind \in kinds /\ status # "idle"

\* the i-th state entered was made for the given part of the loop
EnteredPart(i, part) == EnteredBelow(i, Append(LoopPath, part))

\* C17: in a for loop with an incrementor, a continue in the body is followed
\* by the states of the incrementor, and only then by the check
C17_ContinueRunsIncrementor ==
    LoopStarted({"ForStmt"}) /\ IsNode(LoopStmt.incrementor) =>
        \A i \in 1..(Len(trace) - 2) :
            EnteredStmt(i, "ContinueStmt") => EnteredPart(i + 2, "incrementor")

\* for (x = 0; c; c = 0) { continue } was started with a truthy c: the
\* execution went from continue to the check, has not run the incrementor
\* once, and is still in the loop after MaxSteps states
C17_IncrementorSkipped ==
    /\ LoopStarted({"ForStmt"})
    /\ LoopStmt.incrementor = ClearC
    /\ LoopStmt.condition = VarC
    /\ LoopStmt.stmt.statements = <<ContinueStmt>>
    /\ status = "running"
    /\ Len(trace) = MaxSteps
    /\ \E i \in 1..(Len(trace) - 2) :
          /\ EnteredStmt(i, "ContinueStmt")
          /\ Entered(i + 1, LoopPath, ContinueNext)
          /\ Entered(i + 2, LoopPath, "check")
    /\ \A i \in 1..Len(trace) : ~EnteredPart(i, "incrementor")

\* the entries of the trace made for the statements of the loop body
BodyEntries == {i \in 1..Len(trace) : EnteredPart(i, "stmt")}

\* the entries of the trace at which the loop tested its condition
Checks == LoopEntries("check")

\* C18: the body of do ... while (c) runs once before the condition is first
\* tested, so it runs when c is falsy from the start; the body of while (c)
\* does not run in that case
C18_DoRunsBodyFirst ==
    /\ LoopStarted({"DoStmt"}) =>
          \A i \in Checks : \E b \in BodyEntries : b < i
    /\ LoopStarted({"DoStmt"}) /\ status = "succeeded" => BodyEntries # {}
    /\ LoopStarted({"WhileStmt"}) /\ ~JTruthy(executionInput) => BodyEntries = {}

\* do { y = 2 } while (c) was started with a falsy c and has returned: the
\* condition was tested and no state of the body was entered
C18_DoBodySkipped ==
    /\ LoopStarted({"DoStmt"})
    /\ LoopStmt.condition = VarC
    /\ LoopStmt.stmt.statements = <<AfterTry>>
    /\ ~JTruthy(executionInput)
    /\ status = "succeeded"
    /\ Checks # {}
    /\ BodyEntries = {}

\* the condition of the loop needs a state to compute: (x = c)
ConditionNeedsStates == LoopStmt.condition = BinaryExpr(VarX, "=", VarC)

\* C19: when the condition of a while, do or for loop needs states to
\* compute, these states are entered right before every entry of the check
\* Choice: on loop entry, after the body and after continue
C19_ConditionReExecuted ==
    LoopStarted({"WhileStmt", "DoStmt", "ForStmt"}) /\ ConditionNeedsStates =>
        \A i \in Checks : i > 1 /\ EnteredPart(i - 1, "condition")

\* while ((x = c)) { c = 0 } was started with a truthy c: x = c ran once,
\* before the loop; the check was entered again after the body without it,
\* and the loop is left with c = 0 and x still the first value of c
C19_StaleCondition ==
    /\ LoopStarted({"WhileStmt"})
    /\ ConditionNeedsStates
    /\ LoopStmt.stmt.statements = <<AssignC>>
    /\ JTruthy(executionInput)
    /\ EnteredLast(<<"body", "2", "expr">>, "assign")
    /\ Cardinality({i \in 1..Len(trace) : EnteredPart(i, "condition")}) = 1
    /\ Cardinality(Checks) = 2
    /\ Holds("$.c", JNum(0))
    /\ Holds("$.x", executionInput)

(***************************************************************************)
(* The truthiness of a value of the document: ASL.isTruthy is applied to   *)
(* a path, and the condition is evaluated as a Choice state evaluates it   *)
(***************************************************************************)

\* the values at the path: a value of every kind, and some that look falsy
TruthyValues ==
    {JNull, JStr(""), JStr("a"), JStr("0"), JStr("false"),
     JNum(0), JNum(1), JNum(-1), JBool(TRUE), JBool(FALSE),
     JObj(<<>>), JObj(<<[k |-> "a", v |-> JNum(0)]>>), JObj(<<[k |-> "a", v |-> JNull]>>),
     JArr(<<>>), JArr(<<JNum(0)>>), JArr(<<JNull>>)}

\* where the value is: a member of the input, a member of a member, the
\* first element of an array
Places == {"member", "nested", "head"}

\* the path of the place
PathOf(place) ==
    CASE place = "member" -> "$.v"
      [] place = "nested" -> "$.o.v"
      [] place = "head" -> "$.xs[0]"

\* the members that hold the value; none when there is no value
Held(value) == IF IsNothing(value) THEN <<>> ELSE <<[k |-> "v", v |-> value]>>

\* the input of the execution with the value at the place, or without it
Around(place, value) ==
    CASE place = "member" -> JObj(Held(value))
      [] place = "nested" ->
           JObj(<<[k |-> "o", v |-> JObj(Held(value) \o <<[k |-> "w", v |-> JNum(1)]>>)]>>)
      [] place = "head" ->
           JObj(<<[k |-> "xs",
                   v |-> JArr(IF IsNothing(value) THEN <<>> ELSE <<value, JNum(1)>>)]>>)

InitTruthy ==
    /\ StateNamesIdle
    /\ VariableNamesIdle
    /\ input \in [place : Places, value : TruthyValues \cup {Nothing}]
    /\ decl = NoNode
    /\ definition = Nothing
    /\ heapCounter = 0
    /\ thrown = ""
    /\ pc = "condition"
    /\ executionInput = Around(input.place, input.value)
    /\ current = PathOf(input.place)
    /\ data = PutValue(<<>>, "$", executionInput)
    /\ trace = <<>>
    /\ status = "idle"
    /\ outcome = Nothing

\* the condition is evaluated on the document, and the result kept
Evaluate(cond, name) ==
    /\ pc = "condition"
    /\ status = "idle"
    /\ outcome' = JBool(EvalCondition(cond, data, executionInput))
    /\ status' = name
    /\ UNCHANGED <<stateNameVars, variableNameVars, constructorVars,
                   executionInput, current, data, trace>>

\* a Choice tests ASL.isTruthy(path)
EvalIsTruthy == Evaluate(isTruthy(current), "isTruthy")

\* a Choice tests ASL.not(ASL.isTruthy(path))
EvalNotIsTruthy == Evaluate(not(isTruthy(current)), "not")

NextTruthy == EvalIsTruthy \/ EvalNotIsTruthy

SpecTruthy == InitTruthy /\ [][NextTruthy]_vars

\* the truthiness of the value in the source language; no value is undefined
JsTruthy(value) == ~IsNothing(value) /\ JTruthy(value)

\* C20: for an absent path and for every value at it - null, a string, a
\* number, a boolean, an object, an array - ASL.isTruthy(path) holds exactly
\* when the value is truthy in JavaScript, and ASL.not(ASL.isTruthy(path))
\* exactly when it is falsy
C20_IsTruthyIsJsTruthy ==
    /\ status = "isTruthy" => outcome = JBool(JsTruthy(input.value))
    /\ status = "not" => outcome = JBool(~JsTruthy(input.value))

\* isTruthy was evaluated on an empty object that is a member of a member,
\* and holds
C20_Witness ==
    /\ status = "isTruthy"
    /\ input = [place |-> "nested", value |-> JObj(<<>>)]
    /\ outcome = JBool(TRUE)

(***************************************************************************)
(* Specification of the numbers: a function that computes with its         *)
(* parameter is compiled, then executed on one input                       *)
(***************************************************************************)

\* the operands that are paths: the parameter c, and u, which is never
\* assigned
PathOperands == {VarC, VarU}

\* (c) => { let u; y = +a; z = 3 }
ToNumberFunctions ==
    {FunctionLike(<<ParameterDecl("c", DeclC)>>,
                  BlockStmt(<<DeclareU,
                              ExprStmt(BinaryExpr(VarY, "=", UnaryExpr("+", a))),
                              AssignZ>>)) :
        a \in PathOperands}

\* the place of the computation in the functions, and of its operand
ComputedPath == <<"body", "2", "expr">>

OperandPath == ComputedPath \o <<"right", "expr">>

\* the inputs of the executions: a value of every kind; strings that are
\* the text of a number, of another JSON value, and of none
NumberInputs ==
    {JNull, JStr(""), JStr("1"), JStr("12"), JStr("-2"), JStr("true"), JStr("null"),
     JStr("abc"), JNum(0), JNum(5), JNum(-1), JBool(TRUE), JBool(FALSE),
     JObj(<<>>), JObj(<<[k |-> "a", v |-> JNum(1)]>>), JArr(<<>>), JArr(<<JNum(1)>>)}

InitNumber ==
    /\ StateNamesIdle
    /\ VariableNamesIdle
    /\ input \in ToNumberFunctions
    /\ decl = NoNode
    /\ definition = Nothing
    /\ heapCounter = 0
    /\ thrown = ""
    /\ pc = "constructor"
    /\ ExecutionIdle

StartNumber == StartExecutionOf(NumberInputs)

NextNumber == Compile \/ StartNumber \/ StepPass \/ StepChoice

SpecNumber == InitNumber /\ [][NextNumber]_vars

(***************************************************************************)
(* Properties of the numbers                                               *)
(***************************************************************************)

\* the value the operand of the function has in the execution: the input
\* for the parameter, none for the variable that is never assigned
OperandValue(operand) == IF operand = VarC THEN executionInput ELSE Nothing

\* the number the value stands for, null standing for NaN; no value is
\* undefined, and an object or an array stands for no number
NumberOrNull(value) ==
    IF IsNothing(value) THEN JNull
    ELSE IF Number(value) = NaN THEN JNull ELSE Number(value)

\* the roles of the states of jsonPathValueToNumber entered so far for the
\* node at path
ToNumberEntered(path) ==
    {trace[i].origin.role : i \in {k \in 1..Len(trace) : trace[k].origin.at = path}}

\* the states one run of jsonPathValueToNumber enters: the check and one
\* branch, the branch of a string parsed and then checked
ToNumberRuns ==
    {{"toNumber.check", "toNumber." \o b} : b \in {"null", "zero", "one", "assign"}}
    \cup {{"toNumber.check", "toNumber.format", "toNumber.checkStringOutput"},
          {"toNumber.check", "toNumber.format", "toNumber.checkStringOutput",
           "toNumber.null"}}

\* C21: for every value at the input path, and for an absent path, the
\* sub-state of jsonPathValueToNumber runs one branch and ends with the
\* number the value stands for, or null, in <heap>.num
C21_ToNumberOfEveryValue ==
    input \in ToNumberFunctions /\ status # "idle" =>
        /\ status # "failed"
        /\ Cardinality({i \in 1..Len(trace) : trace[i].origin.at = OperandPath})
             = Cardinality(ToNumberEntered(OperandPath))
        /\ EnteredLast(ComputedPath, "assign") =>
              /\ ToNumberEntered(OperandPath) \in ToNumberRuns
              /\ Holds("$.heap0.num", NumberOrNull(OperandValue(input.body.statements[2].expr.right.expr)))
              /\ Holds("$.y", NumberOrNull(OperandValue(input.body.statements[2].expr.right.expr)))

\* C21 does not hold: the value is the string abc, the text of no JSON
\* value; the Pass that parses it failed and the execution with it
C21_UnparsedString ==
    /\ input \in ToNumberFunctions
    /\ executionInput = JStr("abc")
    /\ EnteredLast(OperandPath, "toNumber.format")
    /\ status = "failed"
    /\ outcome = [Error |-> "States.Runtime"]

(***************************************************************************)
(* Subtraction: the functions (c) => { let u; y = a - b; z = 3 }, an       *)
(* operand the parameter, the variable never assigned or a literal, not    *)
(* both literals                                                           *)
(***************************************************************************)

LiteralOperands == {NumberLiteralExpr(2), StringLiteralExpr("3"), StringLiteralExpr("abc")}

MinusFunctions ==
    {FunctionLike(<<ParameterDecl("c", DeclC)>>,
                  BlockStmt(<<DeclareU,
                              ExprStmt(BinaryExpr(VarY, "=", BinaryExpr(ab[1], "-", ab[2]))),
                              AssignZ>>)) :
        ab \in ((PathOperands \cup LiteralOperands) \X (PathOperands \cup LiteralOperands))
                 \ (LiteralOperands \X LiteralOperands)}

\* the place of the subtraction in the functions
MinusPath == ComputedPath \o <<"right">>

InitMinus ==
    /\ StateNamesIdle
    /\ VariableNamesIdle
    /\ input \in MinusFunctions
    /\ decl = NoNode
    /\ definition = Nothing
    /\ heapCounter = 0
    /\ thrown = ""
    /\ pc = "constructor"
    /\ ExecutionIdle

StartMinus == StartExecutionOf(NumberInputs \ {JStr("abc")})

NextMinus == Compile \/ StartMinus \/ StepPass \/ StepChoice

SpecMinus == InitMinus /\ [][NextMinus]_vars

(***************************************************************************)
(* Properties of the subtraction                                           *)
(***************************************************************************)

\* the value an operand of the subtraction has in the execution
MinusOperandValue(operand) ==
    IF operand.kind = "Identifier" THEN OperandValue(operand) ELSE LiteralJson(operand)

\* a - b of the source language, null standing for NaN
Difference(left, right) ==
    IF NumberOrNull(left) = JNull \/ NumberOrNull(right) = JNull THEN JNull
    ELSE JNum(NumberOrNull(left).v - NumberOrNull(right).v)

\* a value no number stands for, which coerces to NaN
CoercesToNaN(value) ==
    IF IsNothing(value) THEN TRUE ELSE Number(value) = NaN

\* the subtraction of the function, and the values of its operands
Subtraction == input.body.statements[2].expr.right

MinusLeftValue == MinusOperandValue(Subtraction.left)

MinusRightValue == MinusOperandValue(Subtraction.right)

\* C22: a - b is null when an operand coerces to NaN, and then no
\* States.MathAdd is applied; otherwise it is toNumber(a) + (-toNumber(b))
C22_MinusPropagatesNaN ==
    input \in MinusFunctions /\ status # "idle" =>
        /\ status # "failed"
        /\ CoercesToNaN(MinusLeftValue) \/ CoercesToNaN(MinusRightValue) =>
              \A i \in 1..Len(trace) : ~Entered(i, MinusPath, "minus.add")
        /\ EnteredLast(ComputedPath, "assign") =>
              Holds("$.y", IF CoercesToNaN(MinusLeftValue) \/ CoercesToNaN(MinusRightValue)
                           THEN JNull
                           ELSE JNum(Number(MinusLeftValue).v - Number(MinusRightValue).v))

\* C22 does not hold: c - 2 with c an object; the number of c is null, and
\* States.MathAdd applied to it failed the execution
C22_MathAddOfNull ==
    /\ input \in MinusFunctions
    /\ Subtraction.left = VarC
    /\ Subtraction.right = NumberLiteralExpr(2)
    /\ executionInput = JObj(<<>>)
    /\ Holds("$.heap0.num", JNull)
    /\ EnteredLast(MinusPath, "minus.add")
    /\ status = "failed"
    /\ outcome = [Error |-> "States.Runtime"]

(***************************************************************************)
(* Increment and decrement: the functions (c) => { y = c++; c = 7; z = 3 } *)
(* with ++ or -- before or after c                                         *)
(***************************************************************************)

IncrementExprs ==
    {UnaryExpr(op, VarC) : op \in {"++", "--"}}
    \cup {PostfixUnaryExpr(op, VarC) : op \in {"++", "--"}}

IncrementFunctions ==
    {FunctionLike(<<ParameterDecl("c", DeclC)>>,
                  BlockStmt(<<ExprStmt(BinaryExpr(VarY, "=", e)),
                              ExprStmt(BinaryExpr(VarC, "=", NumberLiteralExpr(7))),
                              AssignZ>>)) :
        e \in IncrementExprs}

\* the numbers the variable holds when the execution starts
IncrementInputs == {JNum(n) : n \in {0 - 3, 0 - 1, 0, 1, 5, 7, 11}}

\* the places of y = c++, of c++ and of c = 7 in the functions
IncrementAssignPath == <<"body", "1", "expr">>

IncrementPath == IncrementAssignPath \o <<"right">>

LaterWritePath == <<"body", "2", "expr">>

InitIncrement ==
    /\ StateNamesIdle
    /\ VariableNamesIdle
    /\ input \in IncrementFunctions
    /\ decl = NoNode
    /\ definition = Nothing
    /\ heapCounter = 0
    /\ thrown = ""
    /\ pc = "constructor"
    /\ ExecutionIdle

StartIncrement == StartExecutionOf(IncrementInputs)

NextIncrement == Compile \/ StartIncrement \/ StepPass

SpecIncrement == InitIncrement /\ [][NextIncrement]_vars

(***************************************************************************)
(* Properties of increment and decrement                                   *)
(***************************************************************************)

Increment == input.body.statements[1].expr.right

\* the value of the variable after the expression: old + 1 or old - 1
Incremented == JNum(executionInput.v + (IF Increment.op = "++" THEN 1 ELSE 0 - 1))

\* the value of the expression: the old value after the variable, the new
\* one before it
IncrementValue ==
    IF Increment.kind = "PostfixUnaryExpr" THEN executionInput ELSE Incremented

\* the path the lowered expression gives as its output
IncrementOutput ==
    getAslStateOutput(eval(input, IncrementPath, NewCompilation).r).jsonPath

\* the places in the trace of the states of the expression with the role
IncrementSteps(role) ==
    {i \in 1..Len(trace) : Entered(i, IncrementPath, "increment." \o role)}

\* the state of the expression with the role has run
IncrementRan(role) ==
    status = "running" /\ \E i \in IncrementSteps(role) : i < Len(trace)

\* C23: after x++ or x-- the variable holds old+1 or old-1 and the output
\* slot the old value; after ++x or --x both hold the new value; the slot
\* is a heap slot other than the path of x, written before x is updated
\* (after x) or computed with it (before x), and a later write to x leaves
\* it as it is
C23_IncrementKeepsOutput ==
    input \in IncrementFunctions /\ status # "idle" =>
        /\ status # "failed"
        /\ IncrementOutput # "$.c"
        /\ SubSeq(IncrementOutput, 1, 6) = "$.heap"
        /\ IncrementSteps("assign") # {} /\ Increment.kind = "PostfixUnaryExpr" =>
              \E i \in IncrementSteps("copy") :
                  \A j \in IncrementSteps("assign") : i < j
        /\ IncrementSteps("assign") # {} =>
              \E i \in IncrementSteps("mutate") :
                  \A j \in IncrementSteps("assign") : i < j
        /\ IncrementRan("assign") =>
              /\ Holds(IncrementOutput, IncrementValue)
              /\ ~(\E i \in 1..Len(trace) : Entered(i, LaterWritePath, "assign"))
                   => Holds("$.c", Incremented)
        /\ EnteredLast(IncrementAssignPath, "assign") => Holds("$.c", Incremented)
        /\ EnteredLast(LaterWritePath, "assign") =>
              /\ Holds("$.c", JNum(7))
              /\ Holds("$.y", IncrementValue)
              /\ Holds(IncrementOutput, IncrementValue)

\* C23 happens: c++ with c = 5 was evaluated, y holds 5, and after c = 7
\* the output slot still holds 5
C23_Witness ==
    /\ input \in IncrementFunctions
    /\ Increment = PostfixUnaryExpr("++", VarC)
    /\ executionInput = JNum(5)
    /\ EnteredLast(LaterWritePath, "assign")
    /\ Holds("$.c", JNum(7))
    /\ Holds("$.y", JNum(5))
    /\ Holds(IncrementOutput, JNum(5))
    /\ IncrementOutput = "$.heap1"

(***************************************************************************)
(* Assignments: the functions (c) => { y = (c op 4); c = 7; z = 3 } and    *)
(* (c) => { y = (c op 4) - (c = 2); z = 3 }, op an assignment operator     *)
(***************************************************************************)

AssignmentOps == {"=", "+=", "-=", "??=", "||=", "&&="}

\* c op 4
Assignment(op) == BinaryExpr(VarC, op, NumberLiteralExpr(4))

AssignmentFunctions ==
    {FunctionLike(<<ParameterDecl("c", DeclC)>>,
                  BlockStmt(<<ExprStmt(BinaryExpr(VarY, "=", Assignment(op))),
                              ExprStmt(BinaryExpr(VarC, "=", NumberLiteralExpr(7))),
                              AssignZ>>)) :
        op \in AssignmentOps}
    \cup
    {FunctionLike(<<ParameterDecl("c", DeclC)>>,
                  BlockStmt(<<ExprStmt(
                                BinaryExpr(VarY, "=",
                                  BinaryExpr(Assignment(op), "-",
                                             BinaryExpr(VarC, "=", NumberLiteralExpr(2))))),
                              AssignZ>>)) :
        op \in AssignmentOps}

\* the values the variable holds when the execution starts
AssignmentInputs ==
    {JNull, JNum(0), JNum(5), JNum(0 - 1), JStr(""), JStr("1"), JBool(TRUE), JBool(FALSE)}

InitAssignment ==
    /\ StateNamesIdle
    /\ VariableNamesIdle
    /\ input \in AssignmentFunctions
    /\ decl = NoNode
    /\ definition = Nothing
    /\ heapCounter = 0
    /\ thrown = ""
    /\ pc = "constructor"
    /\ ExecutionIdle

StartAssignment == StartExecutionOf(AssignmentInputs)

NextAssignment == Compile \/ StartAssignment \/ StepPass \/ StepChoice

SpecAssignment == InitAssignment /\ [][NextAssignment]_vars

(***************************************************************************)
(* Properties of the assignments                                           *)
(***************************************************************************)

\* the function subtracts c = 2 from the assignment
Subtracted == input.body.statements[1].expr.right.op = "-"

\* the place of the assignment c op 4 in the function, and its operator
AssignmentPath ==
    IF Subtracted THEN <<"body", "1", "expr", "right", "left">>
    ELSE <<"body", "1", "expr", "right">>

AssignmentOp == NodeAt(input, AssignmentPath).op

\* the value of old op 4 in the source language
AssignedValue(op, old) ==
    CASE op = "=" -> JNum(4)
      [] op = "+=" -> IF old.t = "string" THEN JStr(old.v \o "4")
                      ELSE JNum(Number(old).v + 4)
      [] op = "-=" -> JNum(Number(old).v - 4)
      [] op = "??=" -> IF old = JNull THEN JNum(4) ELSE old
      [] op = "||=" -> IF JsTruthy(old) THEN old ELSE JNum(4)
      [] OTHER -> IF JsTruthy(old) THEN JNum(4) ELSE old

\* the output of the lowered assignment
AssignmentOutput == getAslStateOutput(eval(input, AssignmentPath, NewCompilation).r)

\* the value the output of the assignment has in the document
OutputHolds(value) ==
    IF isJsonPath(AssignmentOutput) THEN Holds(AssignmentOutput.jsonPath, value)
    ELSE AssignmentOutput.value = value

\* C24: after an assignment the variable holds the computed value, and the
\* output of the lowered expression is a literal or a path other than the
\* path of the variable, which keeps the value when the variable is
\* written later
C24_AssignmentOutputCaptured ==
    input \in AssignmentFunctions /\ status # "idle" =>
        /\ status # "failed"
        /\ isLiteralValue(AssignmentOutput) \/ AssignmentOutput.jsonPath # "$.c"
        /\ ~Subtracted /\ EnteredLast(<<"body", "1", "expr">>, "assign") =>
              /\ Holds("$.c", AssignedValue(AssignmentOp, executionInput))
              /\ Holds("$.y", AssignedValue(AssignmentOp, executionInput))
              /\ OutputHolds(AssignedValue(AssignmentOp, executionInput))
        /\ ~Subtracted /\ EnteredLast(<<"body", "2", "expr">>, "assign") =>
              /\ Holds("$.c", JNum(7))
              /\ OutputHolds(AssignedValue(AssignmentOp, executionInput))
        /\ Subtracted /\ EnteredLast(<<"body", "1", "expr">>, "assign") =>
              /\ Holds("$.c", JNum(2))
              /\ Holds("$.y", JNum(Number(AssignedValue(AssignmentOp, executionInput)).v - 2))

\* C24 does not hold: y = (c ||= 4) - (c = 2) with c = 5; the output of
\* c ||= 4 is the path of c, read after c = 2, and y is 0, not 3
C24_OutputIsVariable ==
    /\ input \in AssignmentFunctions
    /\ Subtracted
    /\ AssignmentOp = "||="
    /\ executionInput = JNum(5)
    /\ AssignmentOutput = [jsonPath |-> "$.c"]
    /\ EnteredLast(<<"body", "1", "expr">>, "assign")
    /\ Holds("$.y", JNum(0))

(***************************************************************************)
(* Object literals: the functions (c) => { y = { ... }; z = 3 }, the       *)
(* properties of the literal taking c, spreading c and assigning c         *)
(***************************************************************************)

\* { x: 1 }
ObjectX1 == ObjectLiteralExpr(<<PropAssignExpr("x", NumberLiteralExpr(1))>>)

\* a: c   ...c   k: (c = { x: 1 })
TakeC == PropAssignExpr("a", VarC)

SpreadC == SpreadAssignExpr(VarC)

ReassignC == PropAssignExpr("k", BinaryExpr(VarC, "=", ObjectX1))

ObjectLiterals ==
    {ObjectLiteralExpr(props) :
        props \in {<<TakeC, SpreadC, ReassignC>>,
                   <<TakeC, SpreadC, ReassignC, SpreadC>>,
                   <<SpreadC, TakeC, ReassignC>>,
                   <<SpreadC, ReassignC, TakeC>>,
                   <<TakeC, ReassignC>>,
                   <<ReassignC, TakeC>>,
                   <<SpreadC, ReassignC>>}}

ObjectFunctions ==
    {FunctionLike(<<ParameterDecl("c", DeclC)>>,
                  BlockStmt(<<ExprStmt(BinaryExpr(VarY, "=", o)), AssignZ>>)) :
        o \in ObjectLiterals}

\* the objects the variable holds when the execution starts
ObjectInputs ==
    {JObj(<<>>),
     JObj(<<[k |-> "x", v |-> JNum(0)]>>),
     JObj(<<[k |-> "x", v |-> JNum(0)], [k |-> "w", v |-> JNum(2)]>>),
     JObj(<<[k |-> "a", v |-> JNum(9)]>>),
     JObj(<<[k |-> "k", v |-> JNum(5)], [k |-> "x", v |-> JNum(3)]>>)}

InitObject ==
    /\ StateNamesIdle
    /\ VariableNamesIdle
    /\ input \in ObjectFunctions
    /\ decl = NoNode
    /\ definition = Nothing
    /\ heapCounter = 0
    /\ thrown = ""
    /\ pc = "constructor"
    /\ ExecutionIdle

StartObject == StartExecutionOf(ObjectInputs)

NextObject == Compile \/ StartObject \/ StepPass

SpecObject == InitObject /\ [][NextObject]_vars

(***************************************************************************)
(* Properties of the object literals                                       *)
(***************************************************************************)

\* the place of the object literal in the functions
ObjectPath == <<"body", "1", "expr", "right">>

RECURSIVE JsObject(_, _, _)
\* the object the properties make in the source language, the variable
\* holding the value when they are evaluated in order
JsObject(props, value, made) ==
    IF Len(props) = 0 THEN made
    ELSE IF props[1] = TakeC
    THEN JsObject(Tail(props), value,
                  MergeObjects(made, JObj(<<[k |-> "a", v |-> value]>>)))
    ELSE IF props[1] = SpreadC
    THEN JsObject(Tail(props), value, MergeObjects(made, value))
    ELSE JsObject(Tail(props), JObj(<<[k |-> "x", v |-> JNum(1)]>>),
                  MergeObjects(made, JObj(<<[k |-> "k",
                                             v |-> JObj(<<[k |-> "x", v |-> JNum(1)]>>)]>>)))

\* the properties of the object literal of the function
PropertiesOf == input.body.statements[1].expr.right.properties

\* the places in the trace of the states that copy a property, and of the
\* states of the assignment to the variable
Hoists == {i \in 1..Len(trace) : trace[i].origin.role = "hoist"}

Reassigns ==
    {i \in 1..Len(trace) :
        /\ trace[i].origin.role = "assign"
        /\ Len(trace[i].origin.at) = Len(ObjectPath) + 2}

\* the properties before the last that take or spread the variable
CopiedProperties ==
    {i \in 1..(Len(PropertiesOf) - 1) : PropertiesOf[i] \in {TakeC, SpreadC}}

\* the document holds exactly the value at the path
HoldsOnly(path, value) ==
    /\ Holds(path, value)
    /\ \A key \in DOMAIN data :
          key = path \/ IsUnder(key, path) => \E leaf \in Leaves(path, value) : leaf[1] = key

\* C25: the properties are evaluated in order, a property before the last
\* that takes or spreads the variable is copied to a new heap variable when
\* it is evaluated, and the object has the values the properties had then,
\* whatever a later property assigns to the variable
C25_PropertiesHoisted ==
    input \in ObjectFunctions /\ status # "idle" =>
        /\ status # "failed"
        /\ \A i \in Hoists :
              /\ trace[i].origin.at \in {Append(ObjectPath, ToString(p)) : p \in CopiedProperties}
              /\ \A j \in Hoists : i < j =>
                    \E p, q \in CopiedProperties :
                        /\ p < q
                        /\ trace[i].origin.at = Append(ObjectPath, ToString(p))
                        /\ trace[j].origin.at = Append(ObjectPath, ToString(q))
              /\ \A j \in Reassigns :
                    (i < j) <=>
                    \E p \in CopiedProperties :
                        /\ trace[i].origin.at = Append(ObjectPath, ToString(p))
                        /\ \E q \in (p + 1)..Len(PropertiesOf) : PropertiesOf[q] = ReassignC
        /\ Reassigns # {} => Cardinality(Hoists) =
              Cardinality({p \in CopiedProperties :
                              \E q \in (p + 1)..Len(PropertiesOf) : PropertiesOf[q] = ReassignC})
        /\ EnteredLast(<<"body", "1", "expr">>, "assign") =>
              HoldsOnly("$.y", JsObject(PropertiesOf, executionInput, JObj(<<>>)))

\* C25 happens: { a: c, ...c, k: (c = { x: 1 }) } with c = { x: 0, w: 2 };
\* the two copies were made before the assignment, and y holds the old c
\* under a, its members, and the new object under k
C25_Witness ==
    /\ input \in ObjectFunctions
    /\ PropertiesOf = <<TakeC, SpreadC, ReassignC>>
    /\ executionInput = JObj(<<[k |-> "x", v |-> JNum(0)], [k |-> "w", v |-> JNum(2)]>>)
    /\ Cardinality(Hoists) = 2
    /\ EnteredLast(<<"body", "1", "expr">>, "assign")
    /\ Holds("$.c", JObj(<<[k |-> "x", v |-> JNum(1)]>>))
    /\ Holds("$.y.a", executionInput)
    /\ Holds("$.y.x", JNum(0))
    /\ Holds("$.y.w", JNum(2))
    /\ Holds("$.y.k.x", JNum(1))

(***************************************************************************)
(* Array methods: the functions (c) => { return c.method((v) => body) }    *)
(* with method map, filter or forEach                                      *)
(***************************************************************************)

\* the bodies of the callbacks: one return, a return inside an if before
\* another return, no return, a return in some iterations only, nothing
IterateBodies ==
    {<<ReturnStmt(VarV)>>,
     <<IfStmt(VarV, BlockStmt(<<ReturnStmt(VarV)>>), NoNode),
       ReturnStmt(NumberLiteralExpr(0))>>,
     <<ExprStmt(BinaryExpr(VarX, "=", VarV))>>,
     <<IfStmt(VarV, BlockStmt(<<ReturnStmt(BooleanLiteralExpr(TRUE))>>), NoNode)>>,
     <<>>}

IterateMethods == {"map", "filter", "forEach"}

IterateCall(method, statements) ==
    [kind |-> "CallExpr", expr |-> VarC, method |-> method,
     callback |-> FunctionLike(<<ParameterDecl("v", DeclV)>>, BlockStmt(statements))]

\* a predicate that is normalized to one return of an expression is lowered
\* to a filter of JSONPath, which has no states
IterateFunctions ==
    {FunctionLike(<<ParameterDecl("c", DeclC)>>,
                  BlockStmt(<<ReturnStmt(IterateCall(method, statements))>>)) :
        method \in {"map", "forEach"}, statements \in IterateBodies}
    \cup {FunctionLike(<<ParameterDecl("c", DeclC)>>,
                       BlockStmt(<<ReturnStmt(IterateCall("filter", statements))>>)) :
             statements \in
               {b \in IterateBodies :
                   IsNothing(filterToJsonPath("$.c",
                               NormalizeDecl(FunctionLike(<<ParameterDecl("v", DeclV)>>,
                                                          BlockStmt(b)))))}}

\* the items of the arrays, and the most an array holds
IterateItems == {JNum(0), JNum(2), JStr("a"), JNull}

MaxLength == 3

IterateInputs == {JArr(items) : items \in UNION {[1..n -> IterateItems] : n \in 0..MaxLength}}

InitIterate ==
    /\ StateNamesIdle
    /\ VariableNamesIdle
    /\ input \in IterateFunctions
    /\ decl = NoNode
    /\ definition = Nothing
    /\ heapCounter = 0
    /\ thrown = ""
    /\ pc = "constructor"
    /\ ExecutionIdle

StartIterate == StartExecutionOf(IterateInputs)

NextIterate == Compile \/ StartIterate \/ StepPass \/ StepChoice

SpecIterate == InitIterate /\ [][NextIterate]_vars

\* the execution is at a Pass state it can enter: StepPass is enabled
AtPass ==
    /\ status = "running"
    /\ Len(trace) < MaxSteps
    /\ ~IsNothing(StateNamed(definition, current))
    /\ StateNamed(definition, current).Type = "Pass"

\* the service runs the state an execution is at: weak fairness of the
\* steps, that of StepPass written out with AtPass for ENABLED StepPass
SpecIterateLive ==
    /\ SpecIterate
    /\ WF_vars(StepChoice)
    /\ ([]<>~AtPass \/ []<><<StepPass>>_vars)

(***************************************************************************)
(* Properties of the array methods                                         *)
(***************************************************************************)

IteratePath == <<"body", "1", "expr">>

IterateCallbackPath == Append(IteratePath, "callback")

IterateMethod == input.body.statements[1].expr.method

CallbackStatements == input.body.statements[1].expr.callback.body.statements

IterateArray == executionInput.items

\* the places in the trace of the states of the skeleton with the roles
IterateSteps(roles) ==
    {i \in 1..Len(trace) : /\ trace[i].origin.at = IteratePath
                            /\ trace[i].origin.role \in roles}

\* the iterations: the places where the item is assigned to the parameter
CallbackRuns ==
    {i \in 1..Len(trace) :
        Entered(i, IterateCallbackPath \o <<"parameters", "1">>, "declare")}

\* the places where the working array is tailed
Tailings ==
    IterateSteps({"iterate.tail", "iterate.handleResult", "iterate.predicateTrue"})

\* the places where the skeleton ends
Endings == IterateSteps({"iterate.end", "iterate.format"})

\* the value the callback returns for the item in JavaScript, as JSON
CallbackResult(item) ==
    CASE CallbackStatements = <<ReturnStmt(VarV)>> -> item
      [] Len(CallbackStatements) = 2 -> IF JsTruthy(item) THEN item ELSE JNum(0)
      [] CallbackStatements = <<IfStmt(VarV, BlockStmt(<<ReturnStmt(BooleanLiteralExpr(TRUE))>>),
                                NoNode)>> ->
           IF JsTruthy(item) THEN JBool(TRUE) ELSE JNull
      [] OTHER -> JNull

\* the skeleton as far as the execution has come: the iterations take the
\* items in order, each is tailed once before the next check, and the end
\* comes after the last
IterationOrder ==
    /\ status # "failed"
    /\ Cardinality(CallbackRuns) <= Len(IterateArray)
    /\ Cardinality(Tailings) <= Cardinality(CallbackRuns)
    /\ Cardinality(CallbackRuns) <= Cardinality(Tailings) + 1
    /\ \A i \in IterateSteps({"iterate.check"}) \cup Endings :
           Cardinality({j \in Tailings : j < i})
              = Cardinality({j \in CallbackRuns : j < i})
    /\ \A i \in Endings :
           Cardinality({j \in CallbackRuns : j < i}) = Len(IterateArray)
    /\ Len(trace) \in CallbackRuns =>
           Holds("$.v", IterateArray[Cardinality(CallbackRuns)])
    /\ Len(trace) \in Tailings =>
           Holds("$.heap0.arr",
                 JArr(SubSeq(IterateArray, Cardinality(Tailings) + 1, Len(IterateArray))))

\* the result of the execution that has ended
IterationResult ==
    /\ Cardinality(CallbackRuns) = Len(IterateArray)
    /\ Endings # {}
    /\ IterateMethod = "map" =>
           outcome = JArr([i \in 1..Len(IterateArray) |-> CallbackResult(IterateArray[i])])
    /\ IterateMethod = "filter" =>
           outcome = JArr(SelectSeq(IterateArray, LAMBDA item : JsTruthy(CallbackResult(item))))

IterationSafe ==
    input \in IterateFunctions /\ status # "idle" =>
        /\ IterationOrder
        /\ status = "succeeded" => IterationResult

\* C26: map, filter and forEach over an array of n items run the body of
\* the callback n times, on the items in order, and then reach the end; in
\* every iteration the working array is tailed once, by handleResult or by
\* tail; the result of map has the n results in order, the result of filter
\* the items whose predicate was truthy
C26_IteratesEachItemOnce ==
    /\ []IterationSafe
    /\ (status = "running") ~> (status = "succeeded")

\* C26 happens: filter over three items ended after three iterations, two
\* of them tailed by predicateTrue and one, of a falsy predicate, by tail
C26_Witness ==
    /\ input \in IterateFunctions
    /\ IterateMethod = "filter"
    /\ Len(CallbackStatements) = 2
    /\ executionInput = JArr(<<JNum(2), JNum(0), JStr("a")>>)
    /\ status = "succeeded"
    /\ Cardinality(CallbackRuns) = 3
    /\ Cardinality(IterateSteps({"iterate.predicateTrue"})) = 2
    /\ Cardinality(IterateSteps({"iterate.tail"})) = 1
    /\ outcome = JArr(<<JNum(2), JStr("a")>>)

\* the output of the lowered call: the working space of the skeleton
IterateOutput ==
    getAslStateOutput(eval(NormalizeDecl(input), IteratePath, NewCompilation).r).jsonPath

\* the end state of forEach has just run
ForEachEnded ==
    /\ input \in IterateFunctions
    /\ IterateMethod = "forEach"
    /\ Len(trace) \in IterateSteps({"iterate.end"})

\* C27: after arr.forEach(f) the output of the expression, the working
\* space the end state writes, holds null, whatever the array
C27_ForEachHoldsNull == ForEachEnded => Holds(IterateOutput, JNull)

\* C27 does not hold: forEach over the empty array has ended, and its
\* output holds the text of the path of the null of the context
C27_ForEachHoldsPathText ==
    /\ ForEachEnded
    /\ executionInput = JArr(<<>>)
    /\ IterateOutput = "$.heap0"
    /\ Holds(IterateOutput, JStr("$.fnl_context.null"))

(***************************************************************************)
(* join: the functions (c) => { return c.join(sep) } and                   *)
(* (c) => { for (const v of c) { y = v.join("-") } z = 3 }                 *)
(***************************************************************************)

JoinSeparators == {StringLiteralExpr("-"), NoNode}

\* one join of the parameter
JoinOnce(separator) ==
    FunctionLike(<<ParameterDecl("c", DeclC)>>,
                 BlockStmt(<<ReturnStmt(JoinCallExpr(VarC, separator))>>))

\* the join of each item of the parameter, in a loop
JoinInLoop ==
    FunctionLike(<<ParameterDecl("c", DeclC)>>,
                 BlockStmt(<<ForOfStmt(VariableDecl("v", DeclV), VarC,
                                       BlockStmt(<<ExprStmt(BinaryExpr(VarY, "=",
                                           JoinCallExpr(VarV, StringLiteralExpr("-"))))>>)),
                             AssignZ>>))

JoinFunctions == {JoinOnce(separator) : separator \in JoinSeparators} \cup {JoinInLoop}

\* the arrays joined: of 0 to n strings and numbers
JoinItems == {JStr("a"), JStr("b"), JNum(2)}

JoinArrays(n) == {JArr(items) : items \in UNION {[1..k -> JoinItems] : k \in 0..n}}

\* the arrays joined in the loop: one or two arrays of 0 to 2 items
JoinInputs ==
    IF input = JoinInLoop
    THEN {JArr(arrays) : arrays \in UNION {[1..k -> JoinArrays(2)] : k \in 1..2}}
    ELSE JoinArrays(MaxLength)

InitJoin ==
    /\ StateNamesIdle
    /\ VariableNamesIdle
    /\ input \in JoinFunctions
    /\ decl = NoNode
    /\ definition = Nothing
    /\ heapCounter = 0
    /\ thrown = ""
    /\ pc = "constructor"
    /\ ExecutionIdle

StartJoin == StartExecutionOf(JoinInputs)

NextJoin == Compile \/ StartJoin \/ StepPass \/ StepChoice \/ StepMap

SpecJoin == InitJoin /\ [][NextJoin]_vars

(***************************************************************************)
(* Properties of join                                                      *)
(***************************************************************************)

\* array.join(separator) in JavaScript, for strings and numbers
JsJoin(array, separator) ==
    JStr(Join([i \in 1..Len(array.items) |-> StringOf(array.items[i])], separator))

\* the place of y = v.join("-") in the loop
JoinInLoopPath == <<"body", "1", "stmt", "1", "expr">>

\* the joins of the loop that have ended
JoinsEnded ==
    {i \in 1..Len(trace) : Entered(i, JoinInLoopPath, "assign")}

\* C28: each execution of array.join(separator) gives the join of the
\* array it is executed on: "" for no item, the item for one, the items
\* with the separator between them otherwise; also when the join is
\* executed again in the same execution, whatever the accumulator holds
C28_JoinOfCurrentArray ==
    /\ input \in JoinFunctions /\ input # JoinInLoop /\ status # "idle" =>
          /\ status # "failed"
          /\ status = "succeeded" =>
                outcome = JsJoin(executionInput,
                                 IF IsNode(input.body.statements[1].expr.separator)
                                 THEN "-" ELSE ",")
    /\ input = JoinInLoop /\ status # "idle" =>
          /\ status # "failed"
          /\ Len(trace) \in JoinsEnded =>
                Holds("$.y", JsJoin(ValueAt("$.v", data), "-"))

\* C28 does not hold: the join was executed a second time, on ["b"], and
\* gave the join of the first array and this one
C28_JoinKeepsAccumulator ==
    /\ input = JoinInLoop
    /\ executionInput = JArr(<<JArr(<<JStr("a")>>), JArr(<<JStr("b")>>)>>)
    /\ Cardinality(JoinsEnded) = 2
    /\ Len(trace) \in JoinsEnded
    /\ Holds("$.v", JArr(<<JStr("b")>>))
    /\ Holds("$.y", JStr("a-b"))

(***************************************************************************)
(* Element access in for-in: the functions                                 *)
(* (c) => { for (const i in c) { y = c[i] } z = 3 } and                    *)
(* (c) => { x = c[0]; for (const i in c[1]) { y = x[i] } z = 3 }           *)
(***************************************************************************)

DeclI == "i"

VarI == Identifier("i", DeclI)

\* for (const i in collection) { y = accessed[i] }
ForInAccess(collection, accessed) ==
    ForInStmt(VariableDecl("i", DeclI), collection,
              BlockStmt(<<ExprStmt(BinaryExpr(VarY, "=", ElementAccessExpr(accessed, VarI)))>>))

\* the collection iterated is the one accessed
AccessIterated ==
    FunctionLike(<<ParameterDecl("c", DeclC)>>,
                 BlockStmt(<<ForInAccess(VarC, VarC), AssignZ>>))

\* the collection accessed, x, is another than the one iterated
AccessOther ==
    FunctionLike(<<ParameterDecl("c", DeclC)>>,
                 BlockStmt(<<ExprStmt(BinaryExpr(VarX, "=",
                                 ElementAccessExpr(VarC, NumberLiteralExpr(0)))),
                             ForInAccess(ElementAccessExpr(VarC, NumberLiteralExpr(1)), VarX),
                             AssignZ>>))

ElementFunctions == {AccessIterated, AccessOther}

\* the arrays: of 0 to 2 items
ElementItems == {JStr("a"), JStr("b"), JNum(2)}

ElementArrays == {JArr(items) : items \in UNION {[1..k -> ElementItems] : k \in 0..2}}

\* the input: the array iterated, or the array accessed and the array
\* iterated
ElementInputs ==
    IF input = AccessOther
    THEN {JArr(<<accessed, iterated>>) : accessed, iterated \in ElementArrays}
    ELSE ElementArrays

InitElement ==
    /\ StateNamesIdle
    /\ VariableNamesIdle
    /\ input \in ElementFunctions
    /\ decl = NoNode
    /\ definition = Nothing
    /\ heapCounter = 0
    /\ thrown = ""
    /\ pc = "constructor"
    /\ ExecutionIdle

StartElement == StartExecutionOf(ElementInputs)

NextElement == Compile \/ StartElement \/ StepPass \/ StepChoice \/ StepMap

SpecElement == InitElement /\ [][NextElement]_vars

(***************************************************************************)
(* Properties of element access in for-in                                  *)
(***************************************************************************)

\* the place of the for-in statement, and of y = accessed[i] in it
ForInPath == IF input = AccessOther THEN <<"body", "2">> ELSE <<"body", "1">>

ElementAssignPath == ForInPath \o <<"stmt", "1", "expr">>

\* the path the lowered access gives as its output
ElementOutput ==
    getAslStateOutput(eval(NormalizeDecl(input), Append(ElementAssignPath, "right"),
                           NewCompilation).r).jsonPath

\* the places in the trace where y = accessed[i] has run
ElementsRead == {i \in 1..Len(trace) : Entered(i, ElementAssignPath, "assign")}

\* the array accessed and the array iterated
AccessedArray == IF input = AccessOther THEN executionInput.items[1] ELSE executionInput

IteratedArray == IF input = AccessOther THEN executionInput.items[2] ELSE executionInput

\* C29: in for (i in arr), X[i] is the stashed item $.0__i exactly when X
\* is arr, and then gives the item of arr at the index; Y[i] of another
\* collection Y gives the item of Y at the index
C29_ElementOfAccessedCollection ==
    input \in ElementFunctions /\ pc = "done" =>
        /\ (ElementOutput = "$.0__i") <=> (input = AccessIterated)
        /\ status # "failed"
        /\ /\ Len(trace) \in ElementsRead
           /\ Cardinality(ElementsRead) <= Len(AccessedArray.items)
           => Holds("$.y", AccessedArray.items[Cardinality(ElementsRead)])

\* C29 does not hold: x[i] with x = ["a"] was read in for (i in ["b"]),
\* its output is the stashed item, and y holds "b", the item of the array
\* iterated
C29_ElementOfIteratedCollection ==
    /\ input = AccessOther
    /\ executionInput = JArr(<<JArr(<<JStr("a")>>), JArr(<<JStr("b")>>)>>)
    /\ ElementOutput = "$.0__i"
    /\ Len(trace) \in ElementsRead
    /\ Holds("$.x", JArr(<<JStr("a")>>))
    /\ Holds("$.y", JStr("b"))

(***************************************************************************)
(* Paths: the functions (c) => { w = 5; y = c++; z = w }, the variable w   *)
(* named w, heap0, heap1 or fnl_context                                    *)
(***************************************************************************)

DeclW == "w"

PathNames == {"w", "heap0", "heap1", ContextName}

PathFunctions ==
    {FunctionLike(<<ParameterDecl("c", DeclC)>>,
                  BlockStmt(<<ExprStmt(BinaryExpr(Identifier(name, DeclW), "=",
                                                  NumberLiteralExpr(5))),
                              ExprStmt(BinaryExpr(VarY, "=", e)),
                              ExprStmt(BinaryExpr(VarZ, "=", Identifier(name, DeclW)))>>)) :
        name \in PathNames, e \in IncrementExprs}

InitPath ==
    /\ StateNamesIdle
    /\ VariableNamesIdle
    /\ input \in PathFunctions
    /\ decl = NoNode
    /\ definition = Nothing
    /\ heapCounter = 0
    /\ thrown = ""
    /\ pc = "constructor"
    /\ ExecutionIdle

StartPath == StartExecutionOf(IncrementInputs)

NextPath == Compile \/ StartPath \/ StepPass

SpecPath == InitPath /\ [][NextPath]_vars

(***************************************************************************)
(* Properties of the paths                                                 *)
(***************************************************************************)

\* the paths of the variables of the function, of the heap variables
\* handed out, and of the context
VariablePaths == {"$." \o name : name \in variableNames}

HeapPaths == {"$.heap" \o ToString(n) : n \in 0..(heapCounter - 1)}

ContextPath == "$." \o ContextName

\* the places of w = 5 and of z = w
WritePath == <<"body", "1", "expr">>

ReadBackPath == <<"body", "3", "expr">>

\* C30: the path of no variable is a heap variable or the context, also for
\* variables named heap0 or fnl_context; a write to a heap variable leaves
\* the variables as they are, and an assignment to a variable leaves the
\* heap variables and the null of the context as they are
C30_PathsDisjoint ==
    input \in PathFunctions /\ pc = "done" =>
        /\ VariablePaths \cap (HeapPaths \cup {ContextPath}) = {}
        /\ status # "failed"
        /\ status = "running" /\ (\E i \in 1..Len(trace) : Entered(i, WritePath, "assign")) =>
              Holds(ContextNull, JNull)
        /\ EnteredLast(ReadBackPath, "assign") => Holds("$.z", JNum(5))

\* C30 does not hold: the variable named heap0 was given the path of the
\* first heap variable; after heap0 = 5 and y = ++c the variable holds the
\* result the increment left in its heap variable, and z takes it
C30_VariableIsHeapSlot ==
    /\ input \in PathFunctions
    /\ input.body.statements[1].expr.left.name = "heap0"
    /\ input.body.statements[2].expr.right = UnaryExpr("++", VarC)
    /\ "$.heap0" \in VariablePaths \cap HeapPaths
    /\ executionInput = JNum(1)
    /\ EnteredLast(ReadBackPath, "assign")
    /\ Holds("$.z", JObj(<<[k |-> "out", v |-> JNum(2)]>>))

====
